---------------------------- MODULE Spec2Model ----------------------------
(***************************************************************************)
(* Batch ledgers of pewpi-infinity/z.                                      *)
(*                                                                         *)
(* The module models the ledger scripts of the repository as state         *)
(* machines over the files they read and write:                            *)
(*   - master_harvest_stream.py (and its twin master_infinity_stream.py):  *)
(*     the generating stream, specification Spec;                          *)
(*   - master_slim_stream.py: the directory-scanning stream, SpecSlim;     *)
(*   - master_stream.py: the scanning stream with roll_batches, SpecStream;*)
(*   - master_chain.py: the one-shot chain script, SpecChain;              *)
(*   - build_token.py: calculate_value (SpecValue), score_content and      *)
(*     the valuation of its score (SpecScore), build_token and             *)
(*     generate_mega_hash over the tokens directory (SpecToken);           *)
(*   - cart080_infinity_research_router.py and                             *)
(*     cart082_infinity_token_valuator.py over the tokens directory and    *)
(*     the session buffer, SpecCart;                                       *)
(*   - pewpi_login.py: the user and session store users.json, SpecLogin,   *)
(*     and TokenHashManager over category_tokens.json, SpecHash;           *)
(*   - scripts/pewpi_login.py: the IP-verifying login server, SpecIpLogin; *)
(*   - cart082 main step by step beside the router, SpecPass;              *)
(*   - auth_server.py: requests that load and save users.json at the same  *)
(*     time (SpecRace), check_rate_limit and the OAuth state (SpecOauth);  *)
(*   - cart1000_infinity_research_engine.py: main, SpecEngine.             *)
(*                                                                         *)
(* A process is a program counter plus its in-memory state dict; a kill    *)
(* (or Ctrl+C) loses the memory and keeps the files.  A write is a step of *)
(* its own because a process can stop before, during or after it.          *)
(*                                                                         *)
(* Strings are sequences of naturals.  sha256 is modelled collision-free:  *)
(* the digest of s is s between two bracket symbols, so the digest of a    *)
(* concatenation of digests determines the digests and their order.        *)
(***************************************************************************)
EXTENDS Integers, Sequences, FiniteSets, TLC

(* ------------------------------ bounds --------------------------------- *)

\* The batch size, 1000 in every script, scaled down.
Threshold == 2

\* Items the generating stream creates in one behaviour (all runs together).
MaxMade == 5

\* Failed writes and kills in one behaviour.
MaxFaults == 3

\* harvest_one returns between 1 and this many items.
MaxPerHarvest == 2

(* ------------------------------ strings -------------------------------- *)

\* The link and research texts an item can carry (strings as sequences).
Links == { <<>>, <<1>> }
Researches == { <<2>> }

\* What crossref_query / pubmed_query / the synthetic fallback can return.
Items == [link : Links, research : Researches]

sha256(s) == <<8>> \o s \o <<9>>

RECURSIVE join(_)
\* "".join(hs)
join(hs) == IF hs = <<>> THEN <<>> ELSE Head(hs) \o join(Tail(hs))

\* xs[:n] and xs[n:]
Take(xs, n) == SubSeq(xs, 1, IF n < Len(xs) THEN n ELSE Len(xs))
\* (mutant of Drop: the slice starts one element late)
DropOneMore(xs, n) == SubSeq(xs, n + 2, Len(xs))
Drop(xs, n) == SubSeq(xs, n + 1, Len(xs))

(* ------------------------------- state --------------------------------- *)

\* One script runs in a behaviour; pc, state, todo, new_folders, processed are
\* the running script's position and memory, the others are files and history.
VARIABLES
    pc,            \* position of the script in main(); "start" = not running
    state,         \* main's state dict
    todo,          \* harvest: items of the current harvest_one() result not yet iterated
    new_folders,   \* scanning scripts: folders of the current pass not yet iterated
    processed,     \* scanning scripts: the in-memory set of processed folders
    cursor,        \* the file STATE_PATH
    zipcoins,      \* ZIP_DIR: folder index -> meta.json
    ledgerFiles,   \* BATCH_DIR/batch_NNNN/batch_ledger.json, by batch index
    summaryFiles,  \* BATCH_DIR/batch_NNNN/summary.json
    zipFiles,      \* BATCH_DIR/major_master_NNNN.zip
    markerFiles,   \* REPO/major_master_NNNN.json
    processed_file, \* master_stream: the file PROCESSED_PATH
    major_files,   \* master_stream: ROOT/major_master_NNNN.json, by batch index
    major_ledger,  \* master_stream: ROOT/major_master_ledger.json
    chain_files,   \* master_stream, master_chain: ZIP_DIR/<folder>/chain.json
    coins,         \* master_chain: the list coins
    chain_major,   \* master_chain: ROOT/major_master.json
    \* history (not program state)
    made,          \* items created / folders supplied so far
    faults,        \* failed writes and kills so far
    written,       \* every Rollup record ever written to a batch_ledger.json
    seals,         \* batch_ledger.json writes that completed
    fellBack       \* a start-up found an unreadable cursor and took the default

mem == <<pc, state, todo, new_folders, processed>>
batchFiles == <<ledgerFiles, summaryFiles, zipFiles, markerFiles>>
streamFiles == <<processed_file, major_files, major_ledger, chain_files>>
chainVars == <<coins, chain_major>>
rest == <<streamFiles, chainVars>>
hist == <<made, faults, written, seals, fellBack>>

vars == <<mem, cursor, zipcoins, batchFiles, rest, hist>>

\* A file that holds JSON, one cut short by a failed or interrupted write, and
\* a file that is not there.
File(v) == [kind |-> "json", val |-> v]
Torn(v) == [kind |-> "corrupt", val |-> v]
NoFile(v) == [kind |-> "missing", val |-> v]

load_json(file, default) == IF file.kind = "json" THEN file.val ELSE default

Put(files, k, v) == (k :> v) @@ files

NoLedger == [batch_index |-> 0, count |-> 0, major_master_hash |-> <<>>, master_hashes |-> <<>>]
NoMeta == [link |-> <<>>, research |-> <<>>]

(* --------------------- master_harvest_stream.py ------------------------ *)

\* The default handed to load_json.
DefaultState == [next_index |-> 0, batch_index |-> 0, current_batch_hashes |-> <<>>]

compute_master_from_meta(meta) ==
    sha256(sha256(meta.link) \o sha256(meta.research))

\* (mutant of ready: the guard is <= instead of <)
readyLate(st) == ~ (Len(st.current_batch_hashes) <= Threshold)
\* finalize_batch_if_ready, line 155: the guard, negated
ready(st) == ~ (Len(st.current_batch_hashes) < Threshold)

\* finalize_batch_if_ready's locals; state is not assigned before they are used.
batch_index == state.batch_index + 1
batch_hashes == Take(state.current_batch_hashes, Threshold)
major_master == sha256(join(batch_hashes))

LedgerRecord ==
    [batch_index |-> batch_index, count |-> Threshold,
     major_master_hash |-> major_master, master_hashes |-> batch_hashes]
SummaryRecord == [batch_index |-> batch_index, major_master_hash |-> major_master]

InitFiles ==
    /\ processed_file = NoFile(<< >>)
    /\ major_files = << >>
    /\ major_ledger = NoFile(<< >>)
    /\ chain_files = << >>
    /\ coins = << >>
    /\ chain_major = NoFile(<< >>)
    /\ zipcoins = << >>
    /\ ledgerFiles = << >>
    /\ summaryFiles = << >>
    /\ zipFiles = {}
    /\ markerFiles = << >>
    /\ made = 0
    /\ faults = 0
    /\ written = {}
    /\ seals = 0
    /\ fellBack = FALSE

Init ==
    /\ pc = "start"
    /\ state = DefaultState
    /\ todo = 0
    /\ new_folders = << >>
    /\ processed = {}
    /\ cursor = NoFile(DefaultState)
    /\ InitFiles

\* An exception inside the while-loop body: main's `except Exception` prints it
\* and the while loop starts over; state stays in memory.
Raise ==
    /\ faults < MaxFaults
    /\ faults' = faults + 1
    /\ pc' = "loop"
    /\ todo' = 0
    /\ new_folders' = << >>

\* main, lines 206-211
Load ==
    /\ pc = "start"
    /\ state' = load_json(cursor, DefaultState)
    /\ fellBack' = (fellBack \/ cursor.kind = "corrupt")
    /\ pc' = "loop"
    /\ UNCHANGED <<rest, todo, new_folders, processed, cursor, zipcoins, batchFiles,
                   made, faults, written, seals>>

\* main, line 217: harvest_one() never returns an empty list
Harvest ==
    /\ pc = "loop"
    /\ made < MaxMade
    /\ \E n \in 1..MaxPerHarvest : todo' = n
    /\ pc' = "item"
    /\ UNCHANGED <<rest, state, new_folders, processed, cursor, zipcoins, batchFiles, hist>>

\* main, line 218: the for loop has run out of items
ForEnd ==
    /\ pc = "item"
    /\ todo = 0
    /\ pc' = "loop"
    /\ UNCHANGED <<rest, state, todo, new_folders, processed, cursor, zipcoins,
                   batchFiles, hist>>

\* main, lines 218-226: the next item; the folder of ordinal next_index gets
\* its meta.json
WriteMeta ==
    /\ pc = "item"
    /\ todo > 0
    /\ made < MaxMade
    /\ \E it \in Items : zipcoins' = Put(zipcoins, state.next_index, File(it))
    /\ made' = made + 1
    /\ todo' = todo - 1
    /\ pc' = "append"
    /\ UNCHANGED <<rest, state, new_folders, processed, cursor, batchFiles, faults,
                   written, seals, fellBack>>

WriteMetaFails ==
    /\ pc = "item"
    /\ todo > 0
    /\ made < MaxMade
    /\ \/ zipcoins' = zipcoins
       \/ zipcoins' = Put(zipcoins, state.next_index, Torn(NoMeta))
    /\ made' = made + 1
    /\ Raise
    /\ UNCHANGED <<rest, state, processed, cursor, batchFiles, written, seals, fellBack>>

\* (mutant of AppendHash: the hash is appended and the ordinal is not advanced)
AppendHashUncounted ==
    /\ pc = "append"
    /\ LET master_hash == compute_master_from_meta(zipcoins[state.next_index].val)
       IN  state' = [state EXCEPT !.current_batch_hashes = Append(@, master_hash)]
    /\ pc' = "save1"
    /\ UNCHANGED <<rest, todo, new_folders, processed, cursor, zipcoins, batchFiles, hist>>
\* main, lines 229-239
AppendHash ==
    /\ pc = "append"
    /\ LET master_hash == compute_master_from_meta(zipcoins[state.next_index].val)
       IN  state' = [state EXCEPT
                        !.current_batch_hashes = Append(@, master_hash),
                        !.next_index = @ + 1]
    /\ pc' = "save1"
    /\ UNCHANGED <<rest, todo, new_folders, processed, cursor, zipcoins, batchFiles, hist>>

\* (mutant of SaveAppend: the append is not persisted)
SaveAppendNoWrite ==
    /\ pc = "save1"
    /\ pc' = "finalize"
    /\ UNCHANGED <<rest, state, todo, new_folders, processed, cursor, zipcoins,
                   batchFiles, hist>>
\* main, line 240
SaveAppend ==
    /\ pc = "save1"
    /\ cursor' = File(state)
    /\ pc' = "finalize"
    /\ UNCHANGED <<rest, state, todo, new_folders, processed, zipcoins, batchFiles, hist>>

\* save_json raising (open or json.dump fails): the file is as before or cut short
SaveFails(default) ==
    /\ pc \in {"save1", "save2"}
    /\ \/ cursor' = cursor
       \/ cursor' = Torn(default)
    /\ Raise
    /\ UNCHANGED <<rest, state, processed, zipcoins, batchFiles, made, written, seals,
                   fellBack>>

SaveCursorFails == SaveFails(DefaultState)

\* finalize_batch_if_ready, lines 155-156, then main's next for-iteration
NotReady ==
    /\ pc = "finalize"
    /\ ~ ready(state)
    /\ pc' = "item"
    /\ UNCHANGED <<rest, state, todo, new_folders, processed, cursor, zipcoins,
                   batchFiles, hist>>

\* (mutant of WriteLedger: the record is not written before the window is reset)
WriteLedgerSkipped ==
    /\ pc = "finalize"
    /\ ready(state)
    /\ pc' = "summary"
    /\ UNCHANGED <<rest, state, todo, new_folders, processed, cursor, zipcoins,
                   batchFiles, hist>>
\* finalize_batch_if_ready, lines 155-171
WriteLedger ==
    /\ pc = "finalize"
    /\ ready(state)
    /\ ledgerFiles' = Put(ledgerFiles, batch_index, File(LedgerRecord))
    /\ written' = written \cup {LedgerRecord}
    /\ seals' = seals + 1
    /\ pc' = "summary"
    /\ UNCHANGED <<rest, state, todo, new_folders, processed, cursor, zipcoins,
                   summaryFiles, zipFiles, markerFiles, made, faults, fellBack>>

WriteLedgerFails ==
    /\ pc = "finalize"
    /\ ready(state)
    /\ \/ ledgerFiles' = ledgerFiles
       \/ ledgerFiles' = Put(ledgerFiles, batch_index, Torn(NoLedger))
    /\ Raise
    /\ UNCHANGED <<rest, state, processed, cursor, zipcoins, summaryFiles, zipFiles,
                   markerFiles, made, written, seals, fellBack>>

\* finalize_batch_if_ready, lines 173-177
WriteSummary ==
    /\ pc = "summary"
    /\ summaryFiles' = Put(summaryFiles, batch_index, File(SummaryRecord))
    /\ pc' = "zip"
    /\ UNCHANGED <<rest, state, todo, new_folders, processed, cursor, zipcoins,
                   ledgerFiles, zipFiles, markerFiles, hist>>

\* finalize_batch_if_ready, lines 180-183
WriteZip ==
    /\ pc = "zip"
    /\ zipFiles' = zipFiles \cup {batch_index}
    /\ pc' = "marker"
    /\ UNCHANGED <<rest, state, todo, new_folders, processed, cursor, zipcoins,
                   ledgerFiles, summaryFiles, markerFiles, hist>>

\* finalize_batch_if_ready, lines 186-187
WriteMarker ==
    /\ pc = "marker"
    /\ markerFiles' = Put(markerFiles, batch_index, File(SummaryRecord))
    /\ pc' = "reset"
    /\ UNCHANGED <<rest, state, todo, new_folders, processed, cursor, zipcoins,
                   ledgerFiles, summaryFiles, zipFiles, hist>>

\* a write after the ledger record raising: summary, zip or marker
LaterWriteFails ==
    /\ pc \in {"summary", "zip", "marker"}
    /\ Raise
    /\ UNCHANGED <<rest, state, processed, cursor, zipcoins, batchFiles, made, written,
                   seals, fellBack>>

\* finalize_batch_if_ready, lines 190-194
ResetWindow ==
    /\ pc = "reset"
    /\ state' = [state EXCEPT
                    !.current_batch_hashes = Drop(@, Threshold),
                    !.batch_index = batch_index]
    /\ pc' = "save2"
    /\ UNCHANGED <<rest, todo, new_folders, processed, cursor, zipcoins, batchFiles, hist>>

\* main, lines 245-247, then the next for-iteration
SaveSeal ==
    /\ pc = "save2"
    /\ cursor' = File(state)
    /\ pc' = "item"
    /\ UNCHANGED <<rest, state, todo, new_folders, processed, zipcoins, batchFiles, hist>>

\* The script stops: memory is lost, the files stay.
Stop(default) ==
    /\ faults < MaxFaults
    /\ faults' = faults + 1
    /\ pc' = "start"
    /\ state' = default
    /\ todo' = 0
    /\ new_folders' = << >>
    /\ processed' = {}

\* The process is killed (or Ctrl+C breaks the loop).
KillAt(default) ==
    /\ pc # "start"
    /\ Stop(default)
    /\ UNCHANGED <<rest, cursor, zipcoins, batchFiles, made, written, seals, fellBack>>

\* Killed inside save_json(STATE_PATH, ...): open(path, "w") has truncated the file.
KillInSaveAt(default) ==
    /\ pc \in {"save1", "save2"}
    /\ cursor' = Torn(default)
    /\ Stop(default)
    /\ UNCHANGED <<rest, zipcoins, batchFiles, made, written, seals, fellBack>>

\* Killed inside the write of batch_ledger.json.
KillInLedgerAt(default) ==
    /\ pc = "finalize"
    /\ ready(state)
    /\ ledgerFiles' = Put(ledgerFiles, batch_index, Torn(NoLedger))
    /\ Stop(default)
    /\ UNCHANGED <<rest, cursor, zipcoins, summaryFiles, zipFiles, markerFiles,
                   made, written, seals, fellBack>>

Kill == KillAt(DefaultState)
KillInSave == KillInSaveAt(DefaultState)
KillInLedger == KillInLedgerAt(DefaultState)

\* finalize_batch_if_ready and the save that follows it in main
Finalize ==
    \/ NotReady
    \/ WriteLedger
    \/ WriteLedgerFails
    \/ WriteSummary
    \/ WriteZip
    \/ WriteMarker
    \/ LaterWriteFails
    \/ ResetWindow
    \/ SaveSeal

Next ==
    \/ Load
    \/ Harvest
    \/ ForEnd
    \/ WriteMeta
    \/ WriteMetaFails
    \/ AppendHash
    \/ SaveAppend
    \/ SaveCursorFails
    \/ Finalize
    \/ Kill
    \/ KillInSave
    \/ KillInLedger

Spec == Init /\ [][Next]_vars

(* ----------------------- master_slim_stream.py ------------------------- *)

\* Folders that other scripts may put into ZIP_DIR in one behaviour.
MaxFolders == 3

RECURSIVE sorted(_)
\* sorted(list(S)) for folder names zip_coin_NNNNN, by their index
sorted(S) ==
    IF S = {} THEN << >>
    ELSE LET m == CHOOSE x \in S : \A y \in S : x <= y
         IN  <<m>> \o sorted(S \ {m})

\* set(xs)
Range(xs) == { xs[i] : i \in 1..Len(xs) }

\* The default handed to load_json.
SlimDefault == [batch_index |-> 0, current_batch_hashes |-> <<>>, processed |-> <<>>]

compute_master(meta) == sha256(sha256(meta.link) \o sha256(meta.research))

SlimInit ==
    /\ pc = "start"
    /\ state = SlimDefault
    /\ todo = 0
    /\ new_folders = << >>
    /\ processed = {}
    /\ cursor = NoFile(SlimDefault)
    /\ InitFiles

\* Another script (or the user) puts a folder into ZIP_DIR, with a meta.json,
\* without one, or with one that does not parse.
AddFolder ==
    /\ made < MaxFolders
    /\ \E meta \in {File(it) : it \in Items} \cup {NoFile(NoMeta), Torn(NoMeta)} :
          zipcoins' = Put(zipcoins, made, meta)
    /\ made' = made + 1
    /\ UNCHANGED <<rest, mem, cursor, batchFiles, faults, written, seals, fellBack>>

\* main, lines 133-139
SlimLoad ==
    /\ pc = "start"
    /\ state' = load_json(cursor, SlimDefault)
    /\ processed' = Range(state'.processed)
    /\ fellBack' = (fellBack \/ cursor.kind = "corrupt")
    /\ pc' = "loop"
    /\ UNCHANGED <<rest, todo, new_folders, cursor, zipcoins, batchFiles, made, faults,
                   written, seals>>

\* main, lines 144-145
SlimScan ==
    /\ pc = "loop"
    /\ new_folders' = sorted(DOMAIN zipcoins \ processed)
    /\ pc' = "item"
    /\ UNCHANGED <<rest, state, todo, processed, cursor, zipcoins, batchFiles, hist>>

\* main, lines 147 and 159-174: the pass is over; the idle branch only prints
SlimPassEnd ==
    /\ pc = "item"
    /\ new_folders = << >>
    /\ pc' = "loop"
    /\ UNCHANGED <<rest, state, todo, new_folders, processed, cursor, zipcoins,
                   batchFiles, hist>>

\* process_zipcoin, lines 56-64, returning None; main goes on to finalize_batch
SlimSkip ==
    /\ pc = "item"
    /\ new_folders # << >>
    /\ zipcoins[Head(new_folders)].kind # "json"
    /\ new_folders' = Tail(new_folders)
    /\ pc' = "finalize"
    /\ UNCHANGED <<rest, state, todo, processed, cursor, zipcoins, batchFiles, hist>>

\* process_zipcoin, lines 56-77, and main, lines 149-151
SlimProcess ==
    /\ pc = "item"
    /\ new_folders # << >>
    /\ zipcoins[Head(new_folders)].kind = "json"
    /\ LET folder == Head(new_folders)
           master_hash == compute_master(zipcoins[folder].val)
       IN  /\ processed' = processed \cup {folder}
           /\ state' = [state EXCEPT
                           !.current_batch_hashes = Append(@, master_hash),
                           !.processed = sorted(processed \cup {folder})]
    /\ new_folders' = Tail(new_folders)
    /\ pc' = "save1"
    /\ UNCHANGED <<rest, todo, cursor, zipcoins, batchFiles, hist>>

SlimSaveFails == SaveFails(SlimDefault)
SlimKill == KillAt(SlimDefault)
SlimKillInSave == KillInSaveAt(SlimDefault)
SlimKillInLedger == KillInLedgerAt(SlimDefault)

\* The steps the script takes when nothing fails.
SlimRun ==
    \/ SlimLoad
    \/ SlimScan
    \/ SlimPassEnd
    \/ SlimSkip
    \/ SlimProcess
    \/ SaveAppend
    \/ NotReady
    \/ WriteLedger
    \/ WriteSummary
    \/ WriteZip
    \/ WriteMarker
    \/ ResetWindow
    \/ SaveSeal

SlimNext ==
    \/ AddFolder
    \/ SlimRun
    \/ WriteLedgerFails
    \/ LaterWriteFails
    \/ SlimSaveFails
    \/ SlimKill
    \/ SlimKillInSave
    \/ SlimKillInLedger

SpecSlim == SlimInit /\ [][SlimNext]_vars

\* A running script takes its next step, and a stopped one is started again.
SpecSlimFair == SpecSlim /\ WF_vars(SlimRun)

(* -------------------------- master_stream.py --------------------------- *)

\* The default handed to load_json.
StreamDefault == [major_batches |-> 0, master_hashes |-> << >>]

\* process_zipcoin, lines 73-78: the hash chain of one folder
ChainOf(folder, meta) ==
    LET orig_hash == sha256(meta.link)
        research_hash == sha256(meta.research)
        combo_hash == sha256(orig_hash \o research_hash)
        master_hash == sha256(combo_hash)
        audit_hash == sha256(master_hash \o <<folder>>)
    IN  [engineer_green |-> orig_hash, research_yellow |-> research_hash,
         assimilate_purple |-> combo_hash, routes_red |-> master_hash,
         investigate_pink |-> audit_hash, ceo_orange |-> folder]

\* save_json of master_stream: True, or the exception is printed and the
\* file is as before or cut short.
Saved(old, new, torn) == {new} \cup (IF faults < MaxFaults THEN {old, torn} ELSE {})
Counted(got, new) == faults' = (IF got = new THEN faults ELSE faults + 1)

\* roll_batches' locals (the timestamp of major_obj is left out)
count == Len(state.master_hashes)
next_idx == count \div Threshold
roll_batch_hashes ==
    SubSeq(state.master_hashes, state.major_batches * Threshold + 1, next_idx * Threshold)
roll_major_master == sha256(join(roll_batch_hashes))
idx == state.major_batches + 1
major_obj ==
    [batch_index |-> idx, count_in_batch |-> Threshold,
     major_master_hash |-> roll_major_master]
NoMajor == [batch_index |-> 0, count_in_batch |-> 0, major_master_hash |-> << >>]

StreamInit ==
    /\ pc = "start"
    /\ state = StreamDefault
    /\ todo = 0
    /\ new_folders = << >>
    /\ processed = {}
    /\ cursor = NoFile(StreamDefault)
    /\ InitFiles

\* main, lines 143-147
StreamLoad ==
    /\ pc = "start"
    /\ state' = load_json(cursor, StreamDefault)
    /\ processed' = Range(load_json(processed_file, << >>))
    /\ fellBack' = (fellBack \/ cursor.kind = "corrupt")
    /\ pc' = "loop"
    /\ UNCHANGED <<todo, new_folders, cursor, zipcoins, batchFiles, rest, made,
                   faults, written, seals>>

\* main, lines 152-153
StreamScan ==
    /\ pc = "loop"
    /\ new_folders' = sorted(DOMAIN zipcoins \ processed)
    /\ pc' = "item"
    /\ UNCHANGED <<state, todo, processed, cursor, zipcoins, batchFiles, rest, hist>>

\* main, lines 156 and 170-184: the pass is over; the replay only prints
StreamPassEnd ==
    /\ pc = "item"
    /\ new_folders = << >>
    /\ pc' = "loop"
    /\ UNCHANGED <<state, todo, new_folders, processed, cursor, zipcoins,
                   batchFiles, rest, hist>>

\* process_zipcoin, lines 60-71, returning None; main goes on to roll_batches
StreamSkip ==
    /\ pc = "item"
    /\ new_folders # << >>
    /\ zipcoins[Head(new_folders)].kind # "json"
    /\ new_folders' = Tail(new_folders)
    /\ pc' = "roll"
    /\ UNCHANGED <<state, todo, processed, cursor, zipcoins, batchFiles, rest, hist>>

\* process_zipcoin, lines 60-97, and main, line 159 (a failed write of
\* chain.json is swallowed by save_json and the file is read by no script)
StreamProcess ==
    /\ pc = "item"
    /\ new_folders # << >>
    /\ zipcoins[Head(new_folders)].kind = "json"
    /\ LET folder == Head(new_folders)
           chain == ChainOf(folder, zipcoins[folder].val)
       IN  /\ chain_files' = Put(chain_files, folder, File(chain))
           /\ state' = [state EXCEPT !.master_hashes = Append(@, chain.routes_red)]
           /\ processed' = processed \cup {folder}
    /\ new_folders' = Tail(new_folders)
    /\ pc' = "savep"
    /\ UNCHANGED <<todo, cursor, zipcoins, batchFiles, processed_file, major_files,
                   major_ledger, chainVars, hist>>

\* main, line 160
StreamSaveProcessed ==
    /\ pc = "savep"
    /\ \E got \in Saved(processed_file, File(sorted(processed)), Torn(<< >>)) :
          /\ processed_file' = got
          /\ Counted(got, File(sorted(processed)))
    /\ pc' = "saves"
    /\ UNCHANGED <<state, todo, new_folders, processed, cursor, zipcoins, batchFiles,
                   major_files, major_ledger, chain_files, chainVars, made,
                   written, seals, fellBack>>

\* main, line 161 (after process_zipcoin) and line 166 (after roll_batches)
StreamSaveState ==
    /\ pc \in {"saves", "saver"}
    /\ \E got \in Saved(cursor, File(state), Torn(StreamDefault)) :
          /\ cursor' = got
          /\ Counted(got, File(state))
    /\ pc' = (IF pc = "saves" THEN "roll" ELSE "item")
    /\ UNCHANGED <<state, todo, new_folders, processed, zipcoins, batchFiles, rest,
                   made, written, seals, fellBack>>

\* roll_batches, lines 101-104, returning False
StreamNoRoll ==
    /\ pc = "roll"
    /\ next_idx <= state.major_batches
    /\ pc' = "item"
    /\ UNCHANGED <<state, todo, new_folders, processed, cursor, zipcoins,
                   batchFiles, rest, hist>>

\* roll_batches, lines 101-120
StreamWriteMajor ==
    /\ pc = "roll"
    /\ ~ (next_idx <= state.major_batches)
    /\ LET old == IF idx \in DOMAIN major_files THEN major_files[idx]
                  ELSE NoFile(NoMajor)
       IN  \E got \in Saved(old, File(major_obj), Torn(NoMajor)) :
              /\ major_files' = Put(major_files, idx, got)
              /\ Counted(got, File(major_obj))
    /\ pc' = "ledger"
    /\ UNCHANGED <<state, todo, new_folders, processed, cursor, zipcoins, batchFiles,
                   processed_file, major_ledger, chain_files, chainVars, made,
                   written, seals, fellBack>>

\* roll_batches, lines 122-130
StreamAppendLedger ==
    /\ pc = "ledger"
    /\ LET ledger == load_json(major_ledger, << >>)
           new == File(Append(ledger, major_obj))
       IN  \E got \in Saved(major_ledger, new, Torn(<< >>)) :
              /\ major_ledger' = got
              /\ Counted(got, new)
    /\ state' = [state EXCEPT !.major_batches = idx]
    /\ pc' = "saver"
    /\ UNCHANGED <<todo, new_folders, processed, cursor, zipcoins, batchFiles,
                   processed_file, major_files, chain_files, chainVars, made,
                   written, seals, fellBack>>

\* The process is killed (or Ctrl+C breaks the loop).
StreamKill ==
    /\ pc # "start"
    /\ Stop(StreamDefault)
    /\ UNCHANGED <<cursor, zipcoins, batchFiles, rest, made, written, seals, fellBack>>

\* Killed inside a save_json: open(path, "w") has truncated the file.
StreamKillInSave ==
    /\ \/ /\ pc \in {"saves", "saver"}
          /\ cursor' = Torn(StreamDefault)
          /\ UNCHANGED <<processed_file, major_ledger>>
       \/ /\ pc = "savep"
          /\ processed_file' = Torn(<< >>)
          /\ UNCHANGED <<cursor, major_ledger>>
       \/ /\ pc = "ledger"
          /\ major_ledger' = Torn(<< >>)
          /\ UNCHANGED <<cursor, processed_file>>
    /\ Stop(StreamDefault)
    /\ UNCHANGED <<zipcoins, batchFiles, major_files, chain_files, chainVars, made,
                   written, seals, fellBack>>

StreamNext ==
    \/ AddFolder
    \/ StreamLoad
    \/ StreamScan
    \/ StreamPassEnd
    \/ StreamSkip
    \/ StreamProcess
    \/ StreamSaveProcessed
    \/ StreamSaveState
    \/ StreamNoRoll
    \/ StreamWriteMajor
    \/ StreamAppendLedger
    \/ StreamKill
    \/ StreamKillInSave

SpecStream == StreamInit /\ [][StreamNext]_vars

(* --------------------------- master_chain.py --------------------------- *)

ChainInit ==
    /\ pc = "start"
    /\ state = StreamDefault
    /\ todo = 0
    /\ new_folders = << >>
    /\ processed = {}
    /\ cursor = NoFile(StreamDefault)
    /\ InitFiles

\* lines 81-82
batch == Take(coins, Threshold)
chain_major_master == sha256(join(batch))

\* lines 28-29: the script starts and lists ZIP_DIR
ChainList ==
    /\ pc = "start"
    /\ coins' = << >>
    /\ new_folders' = sorted(DOMAIN zipcoins)
    /\ pc' = "item"
    /\ UNCHANGED <<state, todo, processed, cursor, zipcoins, batchFiles,
                   streamFiles, chain_major, hist>>

\* lines 34-36: a folder without meta.json is passed over
ChainSkip ==
    /\ pc = "item"
    /\ new_folders # << >>
    /\ zipcoins[Head(new_folders)].kind = "missing"
    /\ new_folders' = Tail(new_folders)
    /\ UNCHANGED <<pc, state, todo, processed, cursor, zipcoins, batchFiles,
                   rest, hist>>

\* lines 38-39: json.load raises on a meta.json that does not parse, nothing
\* catches it and the script ends
ChainDie ==
    /\ pc = "item"
    /\ new_folders # << >>
    /\ zipcoins[Head(new_folders)].kind = "corrupt"
    /\ new_folders' = << >>
    /\ coins' = << >>
    /\ pc' = "start"
    /\ UNCHANGED <<state, todo, processed, cursor, zipcoins, batchFiles,
                   streamFiles, chain_major, hist>>

\* lines 38-74
ChainProcess ==
    /\ pc = "item"
    /\ new_folders # << >>
    /\ zipcoins[Head(new_folders)].kind = "json"
    /\ LET folder == Head(new_folders)
           chain == ChainOf(folder, zipcoins[folder].val)
       IN  /\ chain_files' = Put(chain_files, folder, File(chain))
           /\ coins' = Append(coins, chain.routes_red)
    /\ new_folders' = Tail(new_folders)
    /\ UNCHANGED <<pc, state, todo, processed, cursor, zipcoins, batchFiles,
                   processed_file, major_files, major_ledger, chain_major, hist>>

\* lines 76-78
ChainEmpty ==
    /\ pc = "item"
    /\ new_folders = << >>
    /\ coins = << >>
    /\ pc' = "start"
    /\ UNCHANGED <<state, todo, new_folders, processed, cursor, zipcoins,
                   batchFiles, rest, hist>>

\* lines 80-88
ChainRoll ==
    /\ pc = "item"
    /\ new_folders = << >>
    /\ coins # << >>
    /\ chain_major' = File([major_master_hash |-> chain_major_master])
    /\ pc' = "done"
    /\ UNCHANGED <<state, todo, new_folders, processed, cursor, zipcoins,
                   batchFiles, streamFiles, coins, hist>>

\* lines 90-93: the push, and the script ends
ChainExit ==
    /\ pc = "done"
    /\ coins' = << >>
    /\ pc' = "start"
    /\ UNCHANGED <<state, todo, new_folders, processed, cursor, zipcoins,
                   batchFiles, streamFiles, chain_major, hist>>

ChainNext ==
    \/ AddFolder
    \/ ChainList
    \/ ChainSkip
    \/ ChainDie
    \/ ChainProcess
    \/ ChainEmpty
    \/ ChainRoll
    \/ ChainExit

SpecChain == ChainInit /\ [][ChainNext]_vars

(* ============================== claims ================================= *)

\* The master hash of the item of ordinal k, from the meta.json of its folder.
OrdinalHash(k) == compute_master_from_meta(zipcoins[k].val)

\* xs without its last element
Front(xs) == SubSeq(xs, 1, Len(xs) - 1)

Intact(files, b) == b \in DOMAIN files /\ files[b].kind = "json"

(* C1: whenever the cursor, in memory or in the cursor file, says batch_index = b,
   the ledger record of every batch 1..b is on disk and whole; and when the
   window is about to be truncated the record of the batch being sealed is
   already on disk. *)
C1_LedgerBeforeCursor ==
    /\ \A b \in 1..state.batch_index :
          Intact(ledgerFiles, b) /\ ledgerFiles[b].val.batch_index = b
    /\ cursor.kind = "json" =>
          \A b \in 1..cursor.val.batch_index :
             Intact(ledgerFiles, b) /\ ledgerFiles[b].val.batch_index = b
    /\ pc = "reset" =>
          /\ batch_index \in DOMAIN ledgerFiles
          /\ ledgerFiles[batch_index] = File(LedgerRecord)

\* C1's case: a cursor file written after a seal, found by a restarted process
C1_Witness ==
    /\ cursor.kind = "json"
    /\ cursor.val.batch_index >= 1
    /\ pc = "start"
    /\ faults > 0

(* C2: as long as every start-up has loaded the cursor file, no batch index has
   two different Rollup records, however often a seal was repeated after a
   restart; and right after a seal every Rollup is one of the batches the
   cursor counts, covers exactly the items of its own ordinals, and the
   pending window is exactly the items after the last sealed one. *)
C2_ResealIsSame ==
    ~ fellBack =>
      /\ \A r1, r2 \in written : r1.batch_index = r2.batch_index => r1 = r2
      /\ pc = "save2" =>
           /\ \A r \in written :
                 /\ r.batch_index <= state.batch_index
                 /\ \A i \in 1..Threshold :
                       r.master_hashes[i] =
                           OrdinalHash(Threshold * (r.batch_index - 1) + i - 1)
           /\ \A j \in 1..Len(state.current_batch_hashes) :
                 state.current_batch_hashes[j] =
                     OrdinalHash(Threshold * state.batch_index + j - 1)

\* C2's case: a seal was repeated after a restart from the cursor file
C2_Witness ==
    /\ ~ fellBack
    /\ seals > Cardinality(written)
    /\ pc = "save2"
    /\ Len(state.current_batch_hashes) = 1

(* C3: major_master_ledger.json never holds two entries with the same
   batch_index. *)
C3_NoDuplicateLedgerEntry ==
    major_ledger.kind = "json" =>
        \A i, j \in 1..Len(major_ledger.val) :
            i # j => major_ledger.val[i].batch_index # major_ledger.val[j].batch_index

(* C4: no batch index ever has two Rollup records that differ in rollup hash or
   member list. *)
C4_RollupNeverRewritten ==
    \A r1, r2 \in written : r1.batch_index = r2.batch_index => r1 = r2

(* C5: when the write of the Rollup record fails, the append that triggered the
   seal is rolled back: the window in memory and in the cursor file is the
   window before that append, and batch_index is unchanged. *)
C5_FailedSealRollsBack ==
    [][(pc = "finalize" /\ pc' = "loop") =>
          /\ state'.current_batch_hashes = Front(state.current_batch_hashes)
          /\ cursor'.kind = "json" =>
                cursor'.val.current_batch_hashes = Front(state.current_batch_hashes)
          /\ state'.batch_index = state.batch_index]_vars

(* C10: every Rollup record is computed over exactly threshold hashes and the
    count it records is the number of hashes hashed: the batch_ledger.json
    records of the streaming ledgers, the major_obj of roll_batches, and the
    major master of master_chain. *)
C10_RollupOverThreshold ==
    /\ \A r \in written :
          /\ Len(r.master_hashes) = Threshold
          /\ r.count = Len(r.master_hashes)
          /\ r.major_master_hash = sha256(join(r.master_hashes))
    /\ pc = "ledger" =>
          /\ Len(roll_batch_hashes) = Threshold
          /\ major_obj.count_in_batch = Len(roll_batch_hashes)
    /\ pc = "done" => Len(batch) = Threshold

(* C6: whenever the script is at the top of its loop after an interruption, with
   threshold or more hashes pending in memory and in the cursor file, a further
   Rollup is eventually written. *)
C6_PendingBatchIsSealed ==
    \A n \in 0..MaxFolders :
        (/\ pc = "loop"
         /\ faults > 0
         /\ cursor.kind = "json"
         /\ ready(cursor.val)
         /\ ready(state)
         /\ seals = n) ~> (seals > n)

(* C7: right after a seal the pending window is shorter than the threshold. *)
C7_WindowBelowThreshold ==
    pc = "save2" => Len(state.current_batch_hashes) < Threshold

(* C8: a seal records the first threshold hashes of the window as members and
   leaves the rest pending: members followed by the new window is the old
   window. *)
C8_SealSplitsWindow ==
    [][(pc = "reset" /\ pc' = "save2") =>
          LET members == ledgerFiles[state'.batch_index].val.master_hashes
          IN  /\ Len(members) = Threshold
              /\ members \o state'.current_batch_hashes = state.current_batch_hashes]_vars

\* C8's case: a seal of a window of threshold + k hashes, k > 0
C8_Witness ==
    /\ pc = "save2"
    /\ Len(state.current_batch_hashes) >= 1

(* C9: in a run without failures, from the empty window: no Rollup before the
   threshold-th append; once the threshold-th append and its seal are done there
   has been exactly one ledger write, its members are the appended hashes in
   order, and the window is empty. *)
C9_ExactlyOneRollupAtThreshold ==
    faults = 0 =>
      /\ state.next_index < Threshold => seals = 0 /\ written = {}
      /\ state.next_index = Threshold => seals <= 1
      /\ (state.next_index = Threshold /\ pc \in {"save2", "item", "loop", "append"}) =>
           /\ seals = 1
           /\ DOMAIN ledgerFiles = {1}
           /\ ledgerFiles[1].kind = "json"
           /\ ledgerFiles[1].val.master_hashes = [i \in 1..Threshold |-> OrdinalHash(i - 1)]
           /\ state.current_batch_hashes = <<>>

\* C9's case: the threshold-th append has just been sealed, no failure so far
C9_Witness ==
    /\ faults = 0
    /\ state.next_index = Threshold
    /\ pc = "save2"
    /\ seals = 1

\* batch_index of a ProcessState (major_batches in master_stream)
Idx(st) == IF "batch_index" \in DOMAIN st THEN st.batch_index ELSE st.major_batches

\* A Rollup record with index b has been written: a batch_ledger.json record,
\* or in master_stream the major_master file or a ledger entry.
RollupWritten(b) ==
    \/ \E r \in written : r.batch_index = b
    \/ Intact(major_files, b) /\ major_files[b].val.batch_index = b
    \/ /\ major_ledger.kind = "json"
       /\ \E i \in 1..Len(major_ledger.val) : major_ledger.val[i].batch_index = b

(* C11: in a running process batch_index changes only in the seal step, by +1,
   and the Rollup record of the new index has been written by then; every
   other step (an append that does not seal included) leaves it unchanged;
   and while every start-up has loaded the cursor file, the process never
   works with a batch_index below the one in the cursor file, so the
   persisted index never decreases either. *)
C11_BatchIndexMonotone ==
    [][ /\ (pc # "start" /\ pc' # "start") =>
             \/ Idx(state') = Idx(state)
             \/ /\ pc \in {"reset", "ledger"}
                /\ Idx(state') = Idx(state) + 1
                /\ RollupWritten(Idx(state))'
        /\ (~ fellBack' /\ cursor'.kind = "json" /\ pc' # "start") =>
             Idx(state') >= Idx(cursor'.val)
        /\ (~ fellBack' /\ cursor.kind = "json" /\ cursor'.kind = "json") =>
             Idx(cursor'.val) >= Idx(cursor.val) ]_vars

\* What a replay of the persisted records would count.
PersistedRollups == Cardinality({ b \in DOMAIN ledgerFiles : ledgerFiles[b].kind = "json" })
PersistedItems == Cardinality({ k \in DOMAIN zipcoins : zipcoins[k].kind = "json" })

(* C12: a start-up that finds the cursor file missing or unreadable continues
   with the state a replay of the persisted records gives: batch_index is the
   number of persisted Rollup records and next_index the number of persisted
   Items. *)
C12_FallbackIsReplay ==
    [][ (pc = "start" /\ pc' # "start" /\ cursor.kind # "json") =>
          /\ state'.batch_index = PersistedRollups
          /\ state'.next_index = PersistedItems ]_vars

\* The list a scanning stream appends master hashes to.
Window(st) ==
    IF "master_hashes" \in DOMAIN st THEN st.master_hashes ELSE st.current_batch_hashes

\* The master hash the running script computes for a folder.
FolderHash(f) ==
    IF "master_hashes" \in DOMAIN state THEN ChainOf(f, zipcoins[f].val).routes_red
    ELSE compute_master(zipcoins[f].val)

\* Folders with a meta.json that parses and gives master hash h.
FoldersOf(h) == { f \in DOMAIN zipcoins : zipcoins[f].kind = "json" /\ FolderHash(f) = h }

Occurrences(h, xs) == Cardinality({ i \in 1..Len(xs) : xs[i] = h })

(* C13: in the directory-scanning streams no folder's master hash is in the
   window more than once, in memory or in the cursor file (a hash occurs at
   most as often as there are folders that give it), and a folder whose
   meta.json is missing or does not parse is not marked processed. *)
C13_FolderAppendedOnce ==
    /\ \A st \in {state} \cup (IF cursor.kind = "json" THEN {cursor.val} ELSE {}) :
          \A h \in Range(Window(st)) :
             Occurrences(h, Window(st)) <= Cardinality(FoldersOf(h))
    /\ \A f \in processed : zipcoins[f].kind = "json"

(* ============================ build_token.py =========================== *)

(* Numbers.  calculate_value reaches 9.6e17, so amounts are held as lists of
   base-10000 digits, least significant first, with a sign.  Scores are
   multiples of 0.5 (score_content adds char_count * 0.5 to integers) and
   values are then multiples of 0.25: a score below 10^6 is held as its
   number of halves h, a score from 10^6 on as its number of millions q, and
   a value as its number of quarters. *)

RECURSIVE Limbs(_)
Limbs(n) == IF n < 10000 THEN <<n>> ELSE <<n % 10000>> \o Limbs(n \div 10000)

RECURSIVE Carry(_, _)
Carry(xs, c) ==
    IF xs = << >> THEN (IF c = 0 THEN << >> ELSE Limbs(c))
    ELSE LET t == Head(xs) + c
         IN  <<t % 10000>> \o Carry(Tail(xs), t \div 10000)

\* xs * k for 0 < k < 200001
Times(xs, k) == Carry([i \in 1..Len(xs) |-> xs[i] * k], 0)

Plus(xs, ys) ==
    LET n == IF Len(xs) > Len(ys) THEN Len(xs) ELSE Len(ys)
        at(zs, i) == IF i <= Len(zs) THEN zs[i] ELSE 0
    IN  Carry([i \in 1..n |-> at(xs, i) + at(ys, i)], 0)

LimbsLE(xs, ys) ==
    IF Len(xs) # Len(ys) THEN Len(xs) < Len(ys)
    ELSE LET d == { i \in 1..Len(xs) : xs[i] # ys[i] }
         IN  d = {} \/ LET m == CHOOSE i \in d : \A j \in d : j <= i
                       IN  xs[m] < ys[m]

\* a value of n quarters
Quarters(n) == [neg |-> n < 0, mag |-> Limbs(IF n < 0 THEN -n ELSE n)]
Big(xs) == [neg |-> FALSE, mag |-> xs]

ValueLE(a, b) ==
    IF a.neg /\ b.neg THEN LimbsLE(b.mag, a.mag)
    ELSE IF a.neg THEN TRUE
    ELSE IF b.neg THEN FALSE
    ELSE LimbsLE(a.mag, b.mag)

\* line 69
MIN_VALUE == 90
\* line 70: the float 964_590_650_869_860_860.97 is 964590650869860864; in quarters
MAX_VALUE == Big(<<3456, 7944, 6034, 8362, 385>>)

\* A score of h halves, and one of q millions.
Halves(h) == [h |-> h, q |-> 0]
Millions(q) == [h |-> 0, q |-> q]

ScoreLE(a, b) ==
    IF a.q = 0 /\ b.q = 0 THEN a.h <= b.h
    ELSE IF a.q = 0 THEN TRUE
    ELSE IF b.q = 0 THEN FALSE
    ELSE a.q <= b.q

\* line 185: math.log(score, 10) for score = q millions, in 1/10000, rounded down
log10(q) ==
    CASE q = 1 -> 60000
      [] q = 2 -> 63010
      [] q = 5 -> 66989
      [] q = 10 -> 70000
      [] q = 100 -> 80000
      [] q = 1000 -> 90000
      [] q = 10000 -> 100000
      [] q = 100000 -> 110000
      [] q = 500000 -> 116989
      [] q = 1000000 -> 120000
      [] q = 10000000 -> 130000

\* lines 184-187, before the min: base + multiplier * (score / 1000000)
\* = 10^11 * (1 + log10 * q), in quarters 4 * 10^7 * (10000 + log10(q) * q)
Exponential(q) ==
    Big(<<0>> \o Times(Plus(Limbs(10000), Times(Limbs(q), log10(q))), 4000))

\* (mutant of Clamped: the min is left out)
Unclamped(v) == v
\* line 187: min(..., MAX_VALUE)
Clamped(v) == IF ValueLE(v, MAX_VALUE) THEN v ELSE MAX_VALUE

\* (mutant of Band2: the band counts the score from its lower edge,
\* 100 + (score - 100) * 2)
Band2Low(h) == Quarters(400 + 4 * (h - 200))
\* lines 168-169: 100 + score * 2
Band2(h) == Quarters(400 + 4 * h)

\* lines 160-188
calculate_value(score) ==
    IF score.q = 0 THEN
        LET h == score.h
        IN  IF h < 200 THEN Quarters(4 * MIN_VALUE + h)
            ELSE IF h < 1000 THEN Band2(h)
            ELSE IF h < 4000 THEN Quarters(4000 + 20 * h)
            ELSE IF h < 20000 THEN Quarters(80000 + 200 * h)
            ELSE IF h < 200000 THEN Quarters(4000000 + 10000 * h)
            ELSE Big(Plus(Limbs(2000000000), Times(Limbs(h), 200000)))
    ELSE Clamped(Exponential(score.q))

\* Scores calculate_value is applied to: around zero, on both sides of every
\* band boundary, inside the bands, and far into the clamped band.
Scores ==
    { Halves(h) : h \in {-800, -3, -2, -1, 0, 1, 2, 100, 198, 199, 200, 201, 600,
                         998, 999, 1000, 1001, 3998, 3999, 4000, 4001,
                         19998, 19999, 20000, 20001, 199998, 199999, 200000,
                         200001, 1000000, 1999998, 1999999} }
    \cup { Millions(q) : q \in {1, 2, 5, 10, 100, 1000, 10000, 100000, 500000,
                                1000000, 10000000} }

\* What the scripts of the ledger leave alone.
ledgerVars == <<todo, new_folders, processed, cursor, zipcoins, batchFiles, rest, hist>>

NoLedgerRun ==
    /\ todo = 0
    /\ new_folders = << >>
    /\ processed = {}
    /\ cursor = NoFile(DefaultState)
    /\ InitFiles

\* Two scores, the lower first, and the values computed for them.
ValueInit ==
    /\ pc = "start"
    /\ \E a, b \in Scores :
          /\ ScoreLE(a, b)
          /\ state = [lo |-> a, hi |-> b, value_lo |-> Quarters(0), value_hi |-> Quarters(0)]
    /\ NoLedgerRun

CalculateValue ==
    /\ pc = "start"
    /\ state' = [state EXCEPT !.value_lo = calculate_value(state.lo),
                              !.value_hi = calculate_value(state.hi)]
    /\ pc' = "done"
    /\ UNCHANGED ledgerVars

ValueNext == CalculateValue

SpecValue == ValueInit /\ [][ValueNext]_vars

(* C14: calculate_value is non-decreasing in score, across every band boundary
   and into the clamped band. *)
C14_ValueMonotone ==
    pc = "done" => ValueLE(state.value_lo, state.value_hi)

\* C14's case: the two scores lie on either side of the last band boundary
C14_Witness ==
    /\ pc = "done"
    /\ state.lo = Halves(1999999)
    /\ state.hi = Millions(1)
    /\ state.value_lo # state.value_hi

(* C15: for every score <= 0 calculate_value returns MIN_VALUE, and for no
   score is the value below MIN_VALUE, zero or negative. *)
C15_FloorAtMinValue ==
    pc = "done" =>
      /\ state.lo.q = 0 /\ state.lo.h <= 0 => state.value_lo = Quarters(4 * MIN_VALUE)
      /\ ValueLE(Quarters(4 * MIN_VALUE), state.value_lo)
      /\ ~ state.value_lo.neg

(* C16: calculate_value(score) <= MAX_VALUE for every score, in every band. *)
C16_ValueAtMostMax ==
    pc = "done" =>
      /\ ValueLE(state.value_lo, MAX_VALUE)
      /\ ValueLE(state.value_hi, MAX_VALUE)

\* C16's case: a score whose unclamped value is above MAX_VALUE
C16_Witness ==
    /\ pc = "done"
    /\ state.hi = Millions(10000000)
    /\ ~ ValueLE(Exponential(state.hi.q), MAX_VALUE)
    /\ state.value_hi = MAX_VALUE

(* ------------------------- score_content ------------------------------- *)

\* A text is a list of lines, a line a list of words separated by one space;
\* the words are lower-case letters only, so \bkeyword\b matches whole words.
LongWord == "pneumonoultramicroscopicsilicovolcanoconiosis"
Lines ==
    { << >>, <<"quantum", "quantum", "quantum">>, <<"data", "w">>, <<LongWord>> }

\* Lines of a text, at most.
MaxLines == 6

Texts == UNION { [1..n -> Lines] : n \in 1..MaxLines }

\* lines 25-66, two of the entries
BOOST_KEYWORDS == [quantum |-> 500, data |-> 75]

\* len(word)
chars(w) ==
    CASE w = "quantum" -> 7
      [] w = "data" -> 4
      [] w = "w" -> 1
      [] w = LongWord -> 45

RECURSIVE SumSeq(_)
SumSeq(xs) == IF xs = << >> THEN 0 ELSE Head(xs) + SumSeq(Tail(xs))

RECURSIVE SumOver(_, _)
SumOver(f, S) ==
    IF S = {} THEN 0
    ELSE LET k == CHOOSE x \in S : TRUE IN f[k] + SumOver(f, S \ {k})

\* line 112: text_lower.split()
RECURSIVE split(_)
split(text) == IF text = << >> THEN << >> ELSE Head(text) \o split(Tail(text))

\* line 113: len(text), the newlines between the lines included
len(text) ==
    LET lineLen(l) == IF l = << >> THEN 0
                      ELSE SumSeq([i \in 1..Len(l) |-> chars(l[i])]) + Len(l) - 1
    IN  SumSeq([i \in 1..Len(text) |-> lineLen(text[i])]) + Len(text) - 1

\* line 140: int(math.log(char_count, 2) * 100) for char_count 101..330
log2x100 ==
    <<665, 667, 668, 670, 671, 672, 674, 675, 676, 678, 679, 680, 682, 683,
      684, 685, 687, 688, 689, 690, 691, 693, 694, 695, 696, 697, 698, 700,
      701, 702, 703, 704, 705, 706, 707, 708, 709, 710, 711, 712, 713, 714,
      715, 716, 717, 718, 719, 720, 721, 722, 723, 724, 725, 726, 727, 728,
      729, 730, 731, 732, 733, 733, 734, 735, 736, 737, 738, 739, 740, 740,
      741, 742, 743, 744, 745, 745, 746, 747, 748, 749, 749, 750, 751, 752,
      753, 753, 754, 755, 756, 756, 757, 758, 759, 759, 760, 761, 762, 762,
      763, 764, 765, 765, 766, 767, 767, 768, 769, 770, 770, 771, 772, 772,
      773, 774, 774, 775, 776, 776, 777, 778, 778, 779, 780, 780, 781, 782,
      782, 783, 783, 784, 785, 785, 786, 787, 787, 788, 788, 789, 790, 790,
      791, 791, 792, 793, 793, 794, 794, 795, 796, 796, 797, 797, 798, 798,
      799, 800, 800, 801, 801, 802, 802, 803, 803, 804, 804, 805, 806, 806,
      807, 807, 808, 808, 809, 809, 810, 810, 811, 811, 812, 812, 813, 813,
      814, 814, 815, 815, 816, 816, 817, 817, 818, 818, 819, 819, 820, 820,
      821, 821, 822, 822, 823, 823, 824, 824, 825, 825, 826, 826, 827, 827,
      828, 828, 829, 829, 829, 830, 830, 831, 831, 832, 832, 833, 833, 833,
      834, 834, 835, 835, 836, 836>>

\* lines 101-157; the score in halves
score_content(text) ==
    LET words == split(text)
        char_count == len(text)
        word_count == Len(words)
        kw_count(keyword) == Cardinality({ i \in 1..Len(words) : words[i] = keyword })
        matched == { k \in DOMAIN BOOST_KEYWORDS : kw_count(k) > 0 }
        keyword_matches ==
            [k \in matched |-> [count |-> kw_count(k), bonus |-> kw_count(k) * BOOST_KEYWORDS[k]]]
        keyword_score == SumOver([k \in matched |-> keyword_matches[k].bonus], matched)
        depth == IF char_count > 100 THEN log2x100[char_count - 100] ELSE 0
        complexity == IF word_count > 0
                      THEN (Cardinality(Range(words)) * 1000) \div word_count
                      ELSE 0
        line_count == Len(text)
        structure == IF line_count > 5 THEN line_count * 10 ELSE 0
    IN  [score |-> Halves(char_count + 4 * word_count
                          + 2 * (keyword_score + depth + complexity + structure)),
         analysis |-> [word_count |-> word_count, char_count |-> char_count,
                       keyword_matches |-> keyword_matches,
                       depth_bonus |-> depth, complexity_bonus |-> complexity]]

\* lines 102-108
EmptyAnalysis ==
    [word_count |-> 0, char_count |-> 0, keyword_matches |-> << >>,
     depth_bonus |-> 0, complexity_bonus |-> 0]

ScoreInit ==
    /\ pc = "start"
    /\ \E text \in Texts :
          state = [text |-> text, score |-> Halves(0), analysis |-> EmptyAnalysis,
                   value |-> Quarters(0)]
    /\ NoLedgerRun

\* build_token, line 221
ScoreContent ==
    /\ pc = "start"
    /\ LET r == score_content(state.text)
       IN  state' = [state EXCEPT !.score = r.score, !.analysis = r.analysis]
    /\ pc' = "scored"
    /\ UNCHANGED ledgerVars

\* build_token, line 224
TokenValue ==
    /\ pc = "scored"
    /\ state' = [state EXCEPT !.value = calculate_value(state.score)]
    /\ pc' = "done"
    /\ UNCHANGED ledgerVars

ScoreNext ==
    \/ ScoreContent
    \/ TokenValue

SpecScore == ScoreInit /\ [][ScoreNext]_vars

\* calculate_value, lines 165-183: the band a score falls in, the lowest is 1
BandOf(score) ==
    IF score.q # 0 THEN 7
    ELSE IF score.h < 200 THEN 1
    ELSE IF score.h < 1000 THEN 2
    ELSE IF score.h < 4000 THEN 3
    ELSE IF score.h < 20000 THEN 4
    ELSE IF score.h < 200000 THEN 5
    ELSE 6

(* C17: for the text "quantum quantum quantum" the breakdown records a keyword
   bonus of at least 1500, and the value computed for the score falls in the
   second-lowest valuation band. *)
C17_QuantumExample ==
    (pc = "done" /\ state.text = << <<"quantum", "quantum", "quantum">> >>) =>
      /\ "quantum" \in DOMAIN state.analysis.keyword_matches
      /\ state.analysis.keyword_matches["quantum"].bonus >= 1500
      /\ BandOf(state.score) = 2

\* The score, in halves, that the breakdown alone gives.
Recomputed(analysis) ==
    analysis.char_count + 4 * analysis.word_count
    + 2 * (SumOver([k \in DOMAIN analysis.keyword_matches |->
                       analysis.keyword_matches[k].bonus],
                   DOMAIN analysis.keyword_matches)
           + analysis.depth_bonus + analysis.complexity_bonus)

(* C18: the score is the sum of the terms recorded in the breakdown, so it can
   be recomputed from the breakdown alone, for every text. *)
C18_ScoreFromBreakdown ==
    pc \in {"scored", "done"} => state.score = Halves(Recomputed(state.analysis))

(* ------------------- build_token and generate_mega_hash ---------------- *)

\* Steps of one behaviour (calls of build_token, calls of generate_mega_hash
\* and ticks of the clock together), and members of a short member list.
MaxSteps == 4
MaxMembers == 2

\* The contents tokens are built from.
BuildTexts == { << <<"quantum", "quantum", "quantum">> >>, << <<"data", "w">> >> }

\* The characters of a text as a string: a symbol per word, 5 for the space
\* between two words and 6 for the newline between two lines.
symbol(w) ==
    CASE w = "quantum" -> 1
      [] w = "data" -> 2
      [] w = "w" -> 3
      [] w = LongWord -> 4

RECURSIVE joined(_, _)
joined(xs, sep) ==
    IF xs = << >> THEN << >>
    ELSE IF Len(xs) = 1 THEN Head(xs)
    ELSE Head(xs) \o <<sep>> \o joined(Tail(xs), sep)

raw(text) ==
    joined([i \in 1..Len(text) |->
               joined([j \in 1..Len(text[i]) |-> <<symbol(text[i][j])>>], 5)], 6)

\* str(datetime.datetime.now(timezone.utc)) for the clock reading t, the
\* literals "\n---\n" and "MEGA", and an id no token file has
str(t) == <<100 + t>>
Dashes == <<98>>
MEGA == <<99>>
UnknownHash == <<0>>

\* lines 78-80
infinity_hash(text) == sha256(text)

\* line 301: the error object
NeedMoreTokens ==
    [error |-> TRUE, mega_hash |-> << >>, component_hashes |-> << >>,
     component_count |-> 0, combined_score |-> <<0>>, value |-> Quarters(0)]

\* The world of build_token.py: the files of TOKENS_DIR, SESSION_BUFFER, the
\* clock, and what the last call of generate_mega_hash was given and returned.
TokenWorld ==
    [tokens |-> << >>, megas |-> << >>, pending |-> << >>, now |-> 0,
     builds |-> 0, calls |-> 0, ids |-> << >>, result |-> NeedMoreTokens]

TokenInit ==
    /\ pc = "idle"
    /\ state = TokenWorld
    /\ NoLedgerRun

\* The steps taken so far.
Steps == state.builds + state.calls + state.now

\* Time passes between two calls.
Tick ==
    /\ Steps < MaxSteps
    /\ state' = [state EXCEPT !.now = @ + 1]
    /\ UNCHANGED <<pc, ledgerVars>>

\* lines 251-262
add_to_buffer(pending, token_hash) ==
    IF \E i \in 1..Len(pending) : pending[i] = token_hash THEN pending
    ELSE Append(pending, token_hash)

\* lines 205-248
BuildToken ==
    /\ Steps < MaxSteps
    /\ \E text \in BuildTexts :
          LET token_hash == infinity_hash(raw(text) \o str(state.now))
              r == score_content(text)
              token == [hash |-> token_hash, raw_text |-> raw(text),
                        score |-> r.score, value |-> calculate_value(r.score),
                        analysis |-> r.analysis]
          IN  state' = [state EXCEPT
                           !.tokens = Put(@, token_hash, token),
                           !.pending = add_to_buffer(@, token_hash),
                           !.builds = @ + 1]
    /\ UNCHANGED <<pc, ledgerVars>>

\* (mutant of TooFew: one id is let through)
TooFewOne(token_hashes) == Len(token_hashes) < 1
\* line 300
TooFew(token_hashes) == Len(token_hashes) < 2

\* lines 308-315: the token files that exist, in the order of the ids
RECURSIVE token_data(_)
token_data(token_hashes) ==
    IF token_hashes = << >> THEN << >>
    ELSE (IF Head(token_hashes) \in DOMAIN state.tokens
          THEN <<state.tokens[Head(token_hashes)]>> ELSE << >>)
         \o token_data(Tail(token_hashes))

\* 963_000_000_000, in quarters
base_mega_value == Big(<<0, 0, 8520, 3>>)

\* (mutant of mega_score: the bonuses are left out)
mega_scoreFlat(total_score, n) == Limbs(total_score)
\* lines 321-324, in halves: total_score + n * 1_000_000 + n^3 * 10_000_000
mega_score(total_score, n) ==
    LET combination_bonus == Limbs(n * 1000000)
        synergy_bonus == Times(Times(Limbs(n * n * n), 10000), 1000)
    IN  Plus(Limbs(total_score), Times(Plus(combination_bonus, synergy_bonus), 2))

\* (mutant of mega_value: the cap is left out)
mega_valueUncapped(score) ==
    Big(Plus(base_mega_value.mag, Times(Times(score, 2000), 1000)))
\* lines 327-332: min(base_mega_value + (mega_score / 1000) * 1_000_000_000, MAX_VALUE)
mega_value(score) ==
    Clamped(Big(Plus(base_mega_value.mag, Times(Times(score, 2000), 1000))))

\* lines 303-345
mega_token(token_hashes) ==
    LET data == token_data(token_hashes)
        combined_text == join([i \in 1..Len(data) |-> data[i].raw_text \o Dashes])
        total_score == SumSeq([i \in 1..Len(data) |-> data[i].score.h])
        mega_hash == infinity_hash(combined_text \o str(state.now) \o MEGA)
        score == mega_score(total_score, Len(token_hashes))
    IN  [error |-> FALSE, mega_hash |-> mega_hash, component_hashes |-> token_hashes,
         component_count |-> Len(token_hashes), combined_score |-> score,
         value |-> mega_value(score)]

\* A member list long enough for the cap to apply.
LongList == 50

\* The ids generate_mega_hash is called with: every short list of ids of
\* token files and of an id without one, and the id without one repeated
\* LongList times.
MemberLists ==
    LET ids == DOMAIN state.tokens \cup {UnknownHash}
    IN  UNION { [1..n -> ids] : n \in 0..MaxMembers }
        \cup { [i \in 1..LongList |-> UnknownHash] }

\* lines 287-352
GenerateMegaHash ==
    /\ Steps < MaxSteps
    /\ \E token_hashes \in MemberLists :
          IF TooFew(token_hashes)
          THEN state' = [state EXCEPT !.calls = @ + 1, !.ids = token_hashes,
                                      !.result = NeedMoreTokens]
          ELSE LET m == mega_token(token_hashes)
               IN  state' = [state EXCEPT !.megas = Put(@, m.mega_hash, m),
                                          !.calls = @ + 1, !.ids = token_hashes,
                                          !.result = m]
    /\ UNCHANGED <<pc, ledgerVars>>

TokenNext ==
    \/ Tick
    \/ BuildToken
    \/ GenerateMegaHash

SpecToken == TokenInit /\ [][TokenNext]_vars

(* C19: a call of generate_mega_hash with fewer than 2 ids returns the error
   object and changes nothing: no Composite file is written and no token file
   or buffer is modified. *)
C19_TooFewChangesNothing ==
    [][ (state'.calls = state.calls + 1 /\ Len(state'.ids) < 2) =>
           /\ state'.result.error
           /\ state'.megas = state.megas
           /\ state'.tokens = state.tokens
           /\ state'.pending = state.pending ]_vars

\* C19's case: a call with the single id of an existing token has returned
C19_Witness ==
    /\ state.calls = 1
    /\ Len(state.ids) = 1
    /\ state.ids[1] \in DOMAIN state.tokens
    /\ state.result.error
    /\ state.megas = << >>

\* ys is xs in another order
Reordered(xs, ys) ==
    /\ Len(xs) = Len(ys)
    /\ xs # ys
    /\ \A h \in Range(xs) \cup Range(ys) : Occurrences(h, xs) = Occurrences(h, ys)

(* C20: a second call of generate_mega_hash with the same ordered list of ids
   returns the same mega_hash and the same combined_score as the first; a call
   with the same ids in another order returns a different mega_hash.  The
   second call is the one that would be made in the current state. *)
C20_CombineIsDeterministic ==
    (state.calls > 0 /\ ~ state.result.error) =>
      /\ mega_token(state.ids).mega_hash = state.result.mega_hash
      /\ mega_token(state.ids).combined_score = state.result.combined_score
      /\ \A other \in MemberLists :
            Reordered(state.ids, other) =>
               mega_token(other).mega_hash # state.result.mega_hash


(* C21: every Composite generate_mega_hash returns or has written has a value
   of at least 963,000,000,000 and at most MAX_VALUE, for member lists with
   ids that do not resolve too. *)
C21_MegaValueInRange ==
    \A m \in {state.result} \cup { state.megas[k] : k \in DOMAIN state.megas } :
       ~ m.error =>
          /\ ValueLE(base_mega_value, m.value)
          /\ ValueLE(m.value, MAX_VALUE)

\* C21's case: a Composite of LongList members that do not resolve, whose
\* uncapped value is above MAX_VALUE
C21_Witness ==
    /\ ~ state.result.error
    /\ state.result.component_count = LongList
    /\ token_data(state.ids) = << >>
    /\ ~ ValueLE(mega_valueUncapped(state.result.combined_score), MAX_VALUE)
    /\ state.result.value = MAX_VALUE

(* C22: extending the member list of the last Composite by one more id never
   lowers the value, and raises it whenever the value of the longer list is
   below MAX_VALUE (all scores in the token files are non-negative). *)
C22_LongerListWorthMore ==
    (state.calls > 0 /\ ~ state.result.error) =>
       \A h \in DOMAIN state.tokens \cup {UnknownHash} :
          LET shorter == mega_token(state.ids).value
              longer == mega_token(Append(state.ids, h)).value
          IN  /\ ValueLE(shorter, longer)
              /\ longer # MAX_VALUE => shorter # longer

\* C22's case: a Composite of two tokens, extended by a third member
C22_Witness ==
    /\ ~ state.result.error
    /\ Len(state.ids) = 2
    /\ Len(token_data(state.ids)) = 2
    /\ mega_token(Append(state.ids, state.ids[1])).value # MAX_VALUE

(* C23: every Composite file written records a component_count equal to the
   number of members whose token file was loaded, and that number is at
   least 2. *)
C23_CountIsResolvedMembers ==
    \A k \in DOMAIN state.megas :
       LET m == state.megas[k]
       IN  /\ m.component_count = Len(token_data(m.component_hashes))
           /\ Len(token_data(m.component_hashes)) >= 2

(* ------------- cart080 and cart082: the router and the valuator -------- *)

\* Calls of the router, and clock readings, in one behaviour.
MaxRouted == 3
MaxClock == 1

\* n times the word w on one line
Few(w, n) == << [i \in 1..n |-> w] >>

\* The contents pasted into the router: one line each, of 1, 6, 23, 111 and
\* 439 characters.
RouterTexts ==
    { Few("w", 1), << <<"data", "w">> >>, Few("quantum", 3), Few("quantum", 14),
      Few("quantum", 55) }

\* cart080 line 23: datetime.now().strftime(...) for the clock reading t
strftime(t) == <<200 + t>>

\* cart080 lines 21-35: the object create_token writes to tokens/<h>.json
create_token(text, t) ==
    LET h == sha256(raw(text))
        ts == strftime(t)
    IN  [hash |-> h, timestamp |-> ts, raw_text |-> text]

\* Time passes between two runs of a cart.
CartTick ==
    /\ state.now < MaxClock
    /\ state' = [state EXCEPT !.now = @ + 1]
    /\ UNCHANGED <<pc, ledgerVars>>

\* cart080 main, lines 37-64: a non-empty paste becomes a token file and its
\* hash is appended to the session buffer.
RouterMain ==
    /\ state.routed < MaxRouted
    /\ \E text \in RouterTexts :
          LET token_obj == create_token(text, state.now)
          IN  state' = [state EXCEPT
                           !.tokens = Put(@, token_obj.hash, token_obj),
                           !.pending = Append(@, token_obj.hash),
                           !.routed = @ + 1]
    /\ UNCHANGED <<pc, ledgerVars>>

\* cart082 lines 8-12: the keyword of the list that the texts contain
CART082_BOOST_KEYWORDS == {"quantum"}

\* cart082 line 26: int(math.log(max(1, text_len), 3) * 40)
log3x40(text_len) ==
    CASE text_len = 1 -> 0
      [] text_len = 6 -> 65
      [] text_len = 23 -> 114
      [] text_len = 111 -> 171
      [] text_len = 439 -> 221

\* cart082 lines 14-28, for a text of one line
score_text(text) ==
    LET line == text[1]
        text_len == SumSeq([i \in 1..Len(line) |-> chars(line[i])]) + Len(line) - 1
        base == text_len
        boost == 50 * Cardinality({ i \in 1..Len(line) : line[i] \in CART082_BOOST_KEYWORDS })
        depth == log3x40(text_len)
    IN  base + boost + depth

\* The decimal digits of n as a string, and f"${n}"
RECURSIVE Decimal(_)
Decimal(n) == IF n < 10 THEN <<48 + n>> ELSE Append(Decimal(n \div 10), 48 + (n % 10))

Dollar(n) == <<36>> \o Decimal(n)

\* cart082 lines 30-37
scale_value(score) ==
    IF score < 200 THEN Dollar(80 + score \div 4)
    ELSE IF score < 800 THEN Dollar(400 + score)
    ELSE IF score < 3000 THEN Dollar(1200 + score * 3)
    ELSE Dollar(50000 + score * 12)

\* (mutant of valuate_token: the new score is added to the one in the file)
valuate_tokenAdding(obj) ==
    LET s == score_text(obj.raw_text)
              + (IF "score" \in DOMAIN obj THEN obj.score ELSE 0)
        v == scale_value(s)
    IN  ("value" :> v) @@ ("score" :> s) @@ obj
\* cart082 lines 39-54: the object valuate_token writes back to the file
valuate_token(obj) ==
    LET s == score_text(obj.raw_text)
        v == scale_value(s)
    IN  ("value" :> v) @@ ("score" :> s) @@ obj

\* cart082 lines 71-76: the loop over the pending hashes
RECURSIVE valuate_pending(_, _)
valuate_pending(tokens, pending) ==
    IF pending = << >> THEN tokens
    ELSE LET h == Head(pending)
             done == IF h \in DOMAIN tokens
                     THEN Put(tokens, h, valuate_token(tokens[h]))
                     ELSE tokens
         IN  valuate_pending(done, Tail(pending))

\* cart082 main, lines 56-83: every pending token is valuated and the buffer
\* is cleared.
ValuatorMain ==
    /\ state.pending # << >>
    /\ state' = [state EXCEPT !.tokens = valuate_pending(@, state.pending),
                              !.pending = << >>]
    /\ UNCHANGED <<pc, ledgerVars>>

\* The world of the two carts: the files of TOKENS_DIR, SESSION_BUFFER, the
\* clock and the number of calls of create_token.
CartWorld == [tokens |-> << >>, pending |-> << >>, now |-> 0, routed |-> 0]

CartInit ==
    /\ pc = "idle"
    /\ state = CartWorld
    /\ NoLedgerRun

CartNext ==
    \/ CartTick
    \/ RouterMain
    \/ ValuatorMain

SpecCart == CartInit /\ [][CartNext]_vars

(* C24: two calls building an item from the same content give two distinct
   ids and two separately persisted records, whatever the clock readings of
   the two calls: there are as many token files as calls of create_token. *)
C24_TwoCallsTwoItems == Cardinality(DOMAIN state.tokens) = state.routed

(* C25: valuate_token is idempotent and overwrites only score and value:
   applied to any token file, a second application changes nothing, the id,
   the raw content and the creation timestamp are those of the file, no other
   key is added, and a file the valuator has already valuated is rewritten as
   it is. *)
C25_RevaluationIdempotent ==
    \A k \in DOMAIN state.tokens :
       LET obj == state.tokens[k]
           once == valuate_token(obj)
           twice == valuate_token(once)
       IN  /\ twice = once
           /\ once.hash = obj.hash
           /\ once.raw_text = obj.raw_text
           /\ once.timestamp = obj.timestamp
           /\ DOMAIN once = DOMAIN obj \cup {"score", "value"}
           /\ "score" \in DOMAIN obj => once = obj

\* The valuator has valuated a token of the highest band and one of the lowest.
C25_Witness ==
    /\ \E k \in DOMAIN state.tokens :
          /\ "score" \in DOMAIN state.tokens[k]
          /\ state.tokens[k].score = 3410
          /\ state.tokens[k].value = Dollar(90920)
    /\ \E k \in DOMAIN state.tokens :
          /\ "score" \in DOMAIN state.tokens[k]
          /\ state.tokens[k].value = Dollar(80)

(* C26: for the same meta.json every ledger script computes the same master
   hash, hash(hash(link) + hash(research)): the master hash master_stream
   records for a folder is the one compute_master_from_meta of
   master_harvest_stream and compute_master of master_slim_stream give for
   that folder's meta.json. *)
C26_OneMasterHash ==
    \A f \in DOMAIN chain_files :
       (chain_files[f].kind = "json" /\ zipcoins[f].kind = "json") =>
          /\ chain_files[f].val.routes_red = compute_master_from_meta(zipcoins[f].val)
          /\ chain_files[f].val.routes_red = compute_master(zipcoins[f].val)

(* --------------------------- pewpi_login.py ---------------------------- *)

\* Calls that change users.json in one behaviour, and the sessions among them.
MaxCalls == 6
MaxSessions == 2

\* The largest token_count (and the lowest, negated) a call may leave.
MaxCount == 2

\* Entries of tokens_created, and of mega_hashes, over all users.
MaxEntries == 2
MaxMegaHashes == 1

Usernames == {"alice", "bob"}
Passwords == { <<1>>, <<2>> }
Increments == {-1, 2}
TokenHashes == { <<5>>, <<6>> }

\* lines 38-40
hash_password(password) == sha256(password)

\* lines 43-45: secrets.token_hex(32) of the n-th call; 256 random bits do not
\* repeat, as a digest does not collide.
generate_session_token(n) == <<300 + n>>

\* lines 48-50, for the clock reading t; and Python's None
get_timestamp(t) == <<400 + t>>
None == << >>

\* The session tokens a caller can present: the issued ones and one more.
SessionTokens == { generate_session_token(n) : n \in 0..MaxSessions }

\* lines 23-28: users.json, missing
NoUsers == [users |-> << >>, sessions |-> << >>]

Returned(data, result) == [data |-> data, result |-> result]
Failure(error) == [success |-> FALSE, error |-> error]

\* (mutant of register_user: the record is written whether or not the name is
\* taken)
register_userAgain(data, username, password, t) ==
    Returned([data EXCEPT !.users = Put(@, username,
                 [password_hash |-> hash_password(password), token_count |-> 0,
                  tokens_created |-> << >>, mega_hashes |-> << >>,
                  created_at |-> get_timestamp(t), last_login |-> None])],
             [success |-> TRUE])
\* lines 54-71: what users.json holds after the call, and what is returned
register_user(data, username, password, t) ==
    IF username \in DOMAIN data.users
    THEN Returned(data, Failure("Username already exists"))
    ELSE Returned([data EXCEPT !.users = Put(@, username,
                      [password_hash |-> hash_password(password), token_count |-> 0,
                       tokens_created |-> << >>, mega_hashes |-> << >>,
                       created_at |-> get_timestamp(t), last_login |-> None])],
                  [success |-> TRUE])

\* (mutant of sign_in: the password is not compared)
sign_inAnyPassword(data, username, password, n, t) ==
    IF username \notin DOMAIN data.users
    THEN Returned(data, Failure("User not found"))
    ELSE LET session_token == generate_session_token(n)
         IN  Returned([data EXCEPT
                          !.sessions = Put(@, session_token,
                                           [username |-> username,
                                            created_at |-> get_timestamp(t)]),
                          !.users[username].last_login = get_timestamp(t)],
                      [success |-> TRUE, session_token |-> session_token,
                       username |-> username,
                       token_count |-> data.users[username].token_count])
\* lines 74-102; n is the number of tokens generated before
sign_in(data, username, password, n, t) ==
    IF username \notin DOMAIN data.users
    THEN Returned(data, Failure("User not found"))
    ELSE IF data.users[username].password_hash # hash_password(password)
    THEN Returned(data, Failure("Invalid password"))
    ELSE LET session_token == generate_session_token(n)
         IN  Returned([data EXCEPT
                          !.sessions = Put(@, session_token,
                                           [username |-> username,
                                            created_at |-> get_timestamp(t)]),
                          !.users[username].last_login = get_timestamp(t)],
                      [success |-> TRUE, session_token |-> session_token,
                       username |-> username,
                       token_count |-> data.users[username].token_count])

\* del data["sessions"][session_token]
Without(sessions, session_token) ==
    [k \in DOMAIN sessions \ {session_token} |-> sessions[k]]

\* (mutant of logout: the session is reported closed and kept)
logoutKept(data, session_token) ==
    IF session_token \in DOMAIN data.sessions
    THEN Returned(data, [success |-> TRUE])
    ELSE Returned(data, Failure("Invalid session token"))
\* lines 105-115
logout(data, session_token) ==
    IF session_token \in DOMAIN data.sessions
    THEN Returned([data EXCEPT !.sessions = Without(@, session_token)],
                  [success |-> TRUE])
    ELSE Returned(data, Failure("Invalid session token"))

\* lines 118-139
get_user_info(data, session_token) ==
    IF session_token \notin DOMAIN data.sessions
    THEN Returned(data, Failure("Invalid session"))
    ELSE LET username == data.sessions[session_token].username
         IN  IF username \notin DOMAIN data.users
             THEN Returned(data, Failure("User not found"))
             ELSE Returned(data, [success |-> TRUE, username |-> username,
                                  token_count |-> data.users[username].token_count,
                                  tokens_created |-> data.users[username].tokens_created,
                                  mega_hashes |-> data.users[username].mega_hashes,
                                  created_at |-> data.users[username].created_at,
                                  last_login |-> data.users[username].last_login])

\* lines 142-156
update_token_count(data, session_token, increment) ==
    IF session_token \notin DOMAIN data.sessions
    THEN Returned(data, Failure("Invalid session"))
    ELSE LET username == data.sessions[session_token].username
             saved == [data EXCEPT !.users[username].token_count = @ + increment]
         IN  Returned(saved, [success |-> TRUE,
                              new_count |-> saved.users[username].token_count])

\* (mutant of add_user_token: the entry is appended and not counted)
add_user_tokenUncounted(data, session_token, token_hash, t) ==
    IF session_token \notin DOMAIN data.sessions
    THEN Returned(data, Failure("Invalid session"))
    ELSE LET username == data.sessions[session_token].username
             saved == [data EXCEPT
                          !.users[username].tokens_created =
                              Append(@, [hash |-> token_hash,
                                         created_at |-> get_timestamp(t)])]
         IN  Returned(saved, [success |-> TRUE,
                              token_count |-> saved.users[username].token_count])
\* lines 159-177
add_user_token(data, session_token, token_hash, t) ==
    IF session_token \notin DOMAIN data.sessions
    THEN Returned(data, Failure("Invalid session"))
    ELSE LET username == data.sessions[session_token].username
             saved == [data EXCEPT
                          !.users[username].tokens_created =
                              Append(@, [hash |-> token_hash,
                                         created_at |-> get_timestamp(t)]),
                          !.users[username].token_count = @ + 1]
         IN  Returned(saved, [success |-> TRUE,
                              token_count |-> saved.users[username].token_count])

\* lines 180-195
add_mega_hash(data, session_token, mega_hash, value, t) ==
    IF session_token \notin DOMAIN data.sessions
    THEN Returned(data, Failure("Invalid session"))
    ELSE LET username == data.sessions[session_token].username
         IN  Returned([data EXCEPT
                          !.users[username].mega_hashes =
                              Append(@, [hash |-> mega_hash, value |-> value,
                                         created_at |-> get_timestamp(t)])],
                      [success |-> TRUE])

\* The world of pewpi_login.py: users.json (data), the clock reading every
\* call of a behaviour observes, the number of session tokens generated, the
\* number of calls that changed users.json; and,
\* as history, the password each name was registered with, the increments
\* given to each user by successful update_token_count calls and the hashes
\* given to each user by successful add_user_token calls.  What a call
\* returns is not kept: a failed call leaves the world as it is.
LoginWorld ==
    [data |-> NoUsers, now |-> 0, issued |-> 0, calls |-> 0,
     registered |-> << >>,
     increments |-> [u \in Usernames |-> 0],
     added |-> [u \in Usernames |-> << >>]]

LoginInit ==
    /\ pc = "idle"
    /\ state = LoginWorld
    /\ NoLedgerRun

\* The user a session token stands for in users.json.
UserOf(data, session_token) == data.sessions[session_token].username

\* Entries of tokens_created, and of mega_hashes, over all users.
Entries(data, field) ==
    SumOver([u \in DOMAIN data.users |-> Len(data.users[u][field])], DOMAIN data.users)

RegisterUser ==
    /\ state.calls < MaxCalls
    /\ \E username \in Usernames, password \in Passwords :
          LET r == register_user(state.data, username, password, state.now)
          IN  state' = [state EXCEPT
                           !.data = r.data,
                           !.calls = IF r.result.success THEN @ + 1 ELSE @,
                           !.registered = IF r.result.success
                                          THEN Put(@, username, password) ELSE @]
    /\ UNCHANGED <<pc, ledgerVars>>

SignIn ==
    /\ state.calls < MaxCalls
    /\ state.issued < MaxSessions
    /\ \E username \in Usernames, password \in Passwords :
          LET r == sign_in(state.data, username, password, state.issued, state.now)
          IN  state' = [state EXCEPT
                           !.data = r.data,
                           !.calls = IF r.result.success THEN @ + 1 ELSE @,
                           !.issued = IF r.result.success THEN @ + 1 ELSE @]
    /\ UNCHANGED <<pc, ledgerVars>>

Logout ==
    /\ state.calls < MaxCalls
    /\ \E session_token \in SessionTokens :
          LET r == logout(state.data, session_token)
          IN  state' = [state EXCEPT
                           !.data = r.data,
                           !.calls = IF r.result.success THEN @ + 1 ELSE @]
    /\ UNCHANGED <<pc, ledgerVars>>

UpdateTokenCount ==
    /\ state.calls < MaxCalls
    /\ \E session_token \in SessionTokens, increment \in Increments :
          LET r == update_token_count(state.data, session_token, increment)
          IN  /\ r.result.success => r.result.new_count \in (0 - 1)..MaxCount
              /\ state' = [state EXCEPT
                              !.data = r.data,
                              !.calls = IF r.result.success THEN @ + 1 ELSE @,
                              !.increments =
                                  IF r.result.success
                                  THEN [@ EXCEPT ![UserOf(state.data, session_token)] =
                                                     @ + increment]
                                  ELSE @]
    /\ UNCHANGED <<pc, ledgerVars>>

AddUserToken ==
    /\ state.calls < MaxCalls
    /\ Entries(state.data, "tokens_created") < MaxEntries
    /\ \E session_token \in SessionTokens, token_hash \in TokenHashes :
          LET r == add_user_token(state.data, session_token, token_hash, state.now)
          IN  /\ r.result.success => r.result.token_count <= MaxCount
              /\ state' = [state EXCEPT
                              !.data = r.data,
                              !.calls = IF r.result.success THEN @ + 1 ELSE @,
                              !.added =
                                  IF r.result.success
                                  THEN [@ EXCEPT ![UserOf(state.data, session_token)] =
                                                     Append(@, token_hash)]
                                  ELSE @]
    /\ UNCHANGED <<pc, ledgerVars>>

AddMegaHash ==
    /\ state.calls < MaxCalls
    /\ Entries(state.data, "mega_hashes") < MaxMegaHashes
    /\ \E session_token \in SessionTokens :
          LET r == add_mega_hash(state.data, session_token, MEGA, 963, state.now)
          IN  state' = [state EXCEPT
                           !.data = r.data,
                           !.calls = IF r.result.success THEN @ + 1 ELSE @]
    /\ UNCHANGED <<pc, ledgerVars>>

LoginNext ==
    \/ RegisterUser
    \/ SignIn
    \/ Logout
    \/ UpdateTokenCount
    \/ AddUserToken
    \/ AddMegaHash

SpecLogin == LoginInit /\ [][LoginNext]_vars

(* C27: register_user with a name that is registered fails and leaves
   users.json as it is (the record of that name and every session); with a new
   name it succeeds, adds exactly one record, with token_count 0, and changes
   no other record and no session. *)
C27_RegisterOnce ==
    \A username \in Usernames, password \in Passwords :
       LET data == state.data
           r == register_user(data, username, password, state.now)
       IN  IF username \in DOMAIN data.users
           THEN /\ ~ r.result.success
                /\ r.data = data
           ELSE /\ r.result.success
                /\ DOMAIN r.data.users = DOMAIN data.users \cup {username}
                /\ r.data.users[username].token_count = 0
                /\ r.data.users[username].tokens_created = << >>
                /\ \A u \in DOMAIN data.users : r.data.users[u] = data.users[u]
                /\ r.data.sessions = data.sessions

\* A registered user has a session, tokens and a mega hash, and the other name
\* is still free.
C27_Witness ==
    \E u \in DOMAIN state.data.users :
       /\ state.data.users[u].token_count > 0
       /\ state.data.users[u].tokens_created # << >>
       /\ state.data.users[u].mega_hashes # << >>
       /\ \E k \in DOMAIN state.data.sessions : state.data.sessions[k].username = u
       /\ DOMAIN state.data.users # Usernames

(* C28: sign_in succeeds exactly when the name is registered and the password
   is the one it was registered with; a failed sign_in leaves users.json as it
   is; a successful one adds exactly one session, under a token that was not
   there, bound to that name, and keeps every other session. *)
C28_SignInNeedsPassword ==
    \A username \in Usernames, password \in Passwords :
       LET data == state.data
           r == sign_in(data, username, password, state.issued, state.now)
       IN  /\ r.result.success <=> /\ username \in DOMAIN state.registered
                                   /\ state.registered[username] = password
           /\ ~ r.result.success => r.data = data
           /\ r.result.success =>
                 /\ r.result.session_token \notin DOMAIN data.sessions
                 /\ DOMAIN r.data.sessions =
                       DOMAIN data.sessions \cup {r.result.session_token}
                 /\ r.data.sessions[r.result.session_token].username = username
                 /\ \A k \in DOMAIN data.sessions : r.data.sessions[k] = data.sessions[k]

\* Both names are registered, with different passwords, and one of them has
\* signed in.
C28_Witness ==
    /\ DOMAIN state.registered = Usernames
    /\ state.registered["alice"] # state.registered["bob"]
    /\ \E k \in DOMAIN state.data.sessions : state.data.sessions[k].username = "alice"
    /\ state.issued < MaxSessions

\* The session token was handed out and is not in users.json any more.
LoggedOut(world, session_token) ==
    /\ \E n \in 0..(world.issued - 1) : session_token = generate_session_token(n)
    /\ session_token \notin DOMAIN world.data.sessions

\* logout of a valid session removes it and nothing else; with a token that
\* was logged out every call fails and leaves users.json as it is.
C29_Now ==
    \A t \in SessionTokens :
       LET data == state.data
       IN  /\ t \in DOMAIN data.sessions =>
                LET r == logout(data, t)
                IN  /\ r.result.success
                    /\ t \notin DOMAIN r.data.sessions
                    /\ DOMAIN r.data.sessions = DOMAIN data.sessions \ {t}
                    /\ \A k \in DOMAIN r.data.sessions :
                          r.data.sessions[k] = data.sessions[k]
                    /\ r.data.users = data.users
           /\ LoggedOut(state, t) =>
                /\ get_user_info(data, t) = Returned(data, Failure("Invalid session"))
                /\ update_token_count(data, t, 2) = Returned(data, Failure("Invalid session"))
                /\ add_user_token(data, t, <<5>>, state.now)
                      = Returned(data, Failure("Invalid session"))
                /\ add_mega_hash(data, t, MEGA, 963, state.now)
                      = Returned(data, Failure("Invalid session"))
                /\ logout(data, t) = Returned(data, Failure("Invalid session token"))

\* A token that was logged out stays so, and a step removes at most the one
\* session it logs out.
C29_Step ==
    \A t \in SessionTokens :
       /\ LoggedOut(state, t) => LoggedOut(state', t)
       /\ (t \in DOMAIN state.data.sessions /\ LoggedOut(state', t)) =>
             \A k \in DOMAIN state.data.sessions \ {t} :
                /\ k \in DOMAIN state'.data.sessions
                /\ state'.data.sessions[k] = state.data.sessions[k]

(* C29: after logout(t) succeeded, t is never valid again: get_user_info,
   update_token_count, add_user_token, add_mega_hash and logout with t fail
   and leave users.json as it is, in every later state; and the logout removes
   no other session, those of the same user included. *)
C29_LoggedOutStaysOut == [] C29_Now /\ [][C29_Step]_vars

\* One of a user's two sessions was logged out, the other is still there, and
\* the user has tokens.
C29_Witness ==
    \E t \in SessionTokens, k \in DOMAIN state.data.sessions :
       /\ LoggedOut(state, t)
       /\ state.issued = 2
       /\ state.data.users[state.data.sessions[k].username].token_count > 0

(* C30: after any sequence of successful update_token_count and
   add_user_token calls, a user's token_count is the sum of the increments
   given plus the number of add_user_token calls, and tokens_created holds
   the hashes given, one entry per call, in the order of the calls. *)
C30_CountIsSumOfCalls ==
    \A u \in DOMAIN state.data.users :
       LET user == state.data.users[u]
       IN  /\ user.token_count = state.increments[u] + Len(state.added[u])
           /\ Len(user.tokens_created) = Len(state.added[u])
           /\ \A i \in 1..Len(state.added[u]) :
                 user.tokens_created[i].hash = state.added[u][i]

\* A user was given two different hashes and increments of both signs that do
\* not cancel, over two sessions.
C30_Witness ==
    \E u \in DOMAIN state.data.users :
       /\ Len(state.added[u]) = 2
       /\ state.added[u][1] # state.added[u][2]
       /\ state.increments[u] = 0 - 1
       /\ state.issued = 2
       /\ \A k \in DOMAIN state.data.sessions : state.data.sessions[k].username = u

(* ------------------ scripts/pewpi_login.py: the login server ----------- *)

\* Calls of add-user in one behaviour.
MaxAdds == 2

\* JSON strings and numbers of a request body
Str(v) == [t |-> "str", v |-> v]
Num(v) == [t |-> "num", v |-> v]

\* password.encode('utf-8')
encode(password) ==
    CASE password = "right" -> <<1>>
      [] password = "wrong" -> <<2>>

\* The prefixes of a stored hash: "sha256:" and bcrypt's "$2b$"
Sha256Prefix == 70
BcryptPrefix == 71

\* lines 62-70; salt is what bcrypt.gensalt() returned
ip_hash_password(password, bcrypt_available, salt) ==
    IF bcrypt_available THEN <<BcryptPrefix, salt>> \o encode(password)
    ELSE <<Sha256Prefix>> \o sha256(encode(password))

\* The outcome of a call: a value, or an exception that leaves the function.
Value(v) == [raised |-> FALSE, v |-> v]
Raised == [raised |-> TRUE, v |-> FALSE]

\* lines 73-88; password is the JSON value of the request
verify_password(password, hashed, bcrypt_available) ==
    IF hashed # << >> /\ Head(hashed) = Sha256Prefix
    THEN IF password.t # "str" THEN Raised
         ELSE Value(<<Sha256Prefix>> \o sha256(encode(password.v)) = hashed)
    ELSE IF ~ bcrypt_available THEN Value(FALSE)
    ELSE IF password.t # "str" THEN Value(FALSE)
    ELSE Value(/\ Len(hashed) >= 2
               /\ hashed = <<BcryptPrefix, hashed[2]>> \o encode(password.v))

\* The addresses of the model: one a user is allowed from, and another.
HomeIp == "10.0.0.1"
OtherIp == "6.6.6.6"

\* A header line of the request: the name as the client wrote it, the value
\* as its comma-separated entries.
Header(name, entries) == [name |-> name, entries |-> entries]

\* line 305: {k: v for k, v in self.headers.items()}: the value of the last
\* header line with exactly that name, or "" (no entries)
RECURSIVE headers_get(_, _)
headers_get(headers, name) ==
    IF headers = << >> THEN << >>
    ELSE IF headers[Len(headers)].name = name THEN headers[Len(headers)].entries
    ELSE headers_get(SubSeq(headers, 1, Len(headers) - 1), name)

\* (mutant of get_client_ip: the socket address is always used)
get_client_ipSocket(headers, remote_addr) == remote_addr
\* lines 220-241
get_client_ip(headers, remote_addr) ==
    LET x_forwarded_for == headers_get(headers, "X-Forwarded-For")
    IN  IF x_forwarded_for # << >> THEN x_forwarded_for[1] ELSE remote_addr

\* The responses of handle_login
Response(status, ok, message) == [status |-> status, ok |-> ok, message |-> message]
AuthenticationFailed == Response(403, FALSE, "authentication failed")
Authenticated == Response(200, TRUE, "authenticated")
InternalServerError == Response(500, FALSE, "internal server error")

\* not x, for a JSON value
Falsy(x) == x.v = ""

\* data.get(key, '')
data_get(data, key) == IF key \in DOMAIN data THEN data[key] ELSE Str("")

\* lines 274-337: the response to a request, given the credentials the server
\* loaded
handle_login(request, credentials, bcrypt_available) ==
    IF request.body.kind = "empty"
    THEN Response(400, FALSE, "empty request body")
    ELSE IF request.body.kind = "text"
    THEN Response(400, FALSE, "invalid JSON")
    ELSE IF request.body.kind = "list"
    THEN InternalServerError
    ELSE LET data == request.body.val
             username == data_get(data, "username")
             password == data_get(data, "password")
             client_ip == get_client_ip(request.headers, request.remote_addr)
         IN  IF Falsy(username) \/ Falsy(password) THEN AuthenticationFailed
             ELSE IF username.t # "str" \/ username.v \notin DOMAIN credentials
             THEN AuthenticationFailed
             ELSE LET user_record == credentials[username.v]
                      verified == verify_password(password, user_record.password_hash,
                                                  bcrypt_available)
                  IN  IF verified.raised THEN InternalServerError
                      ELSE IF ~ verified.v THEN AuthenticationFailed
                      ELSE IF \A i \in 1..Len(user_record.allowed_ips) :
                                 user_record.allowed_ips[i] # client_ip
                      THEN AuthenticationFailed
                      ELSE Authenticated

\* The requests of the model.
Objects ==
    LET usernames == {Str(""), Str("alice"), Str("mallory")}
        passwords == {Str(""), Str("right"), Str("wrong"), Num("7")}
    IN  [username : usernames, password : passwords]
        \cup [username : usernames] \cup [password : passwords]

Bodies ==
    { [kind |-> "empty", val |-> << >>], [kind |-> "text", val |-> << >>],
      [kind |-> "list", val |-> << >>] }
    \cup { [kind |-> "object", val |-> o] : o \in Objects }

HeaderLists ==
    { << >>,
      << Header("X-Forwarded-For", <<HomeIp>>) >>,
      << Header("X-Forwarded-For", <<OtherIp, HomeIp>>) >>,
      << Header("x-forwarded-for", <<OtherIp>>) >> }

Requests == [body : Bodies, headers : HeaderLists, remote_addr : {HomeIp, OtherIp}]

\* The world of the login server: whether bcrypt is installed,
\* credentials.json, the credentials the running server loaded (none: it is
\* not running), the number of add-user calls, and the last request with its
\* response.
NoRequest == [body |-> [kind |-> "empty", val |-> << >>], headers |-> << >>,
              remote_addr |-> HomeIp]

IpLoginInit ==
    /\ pc = "idle"
    /\ \E available \in BOOLEAN :
          state = [bcrypt |-> available, file |-> << >>, serving |-> << >>,
                   running |-> FALSE, adds |-> 0, request |-> NoRequest,
                   response |-> Response(400, FALSE, "empty request body")]
    /\ NoLedgerRun

\* lines 175-217 (without --embed): add-user from the command line
AddUser ==
    /\ state.adds < MaxAdds
    /\ \E username \in {"alice", "bob"}, ips \in {<<HomeIp>>, <<OtherIp, HomeIp>>},
          salt \in {0, 1} :
          (state.bcrypt \/ salt = 0) /\
          LET password_hash == ip_hash_password("right", state.bcrypt, salt)
              user_record == [password_hash |-> password_hash, allowed_ips |-> ips]
          IN  state' = [state EXCEPT !.file = Put(@, username, user_record),
                                     !.adds = @ + 1]
    /\ UNCHANGED <<pc, ledgerVars>>

\* lines 340-366 and 91-113: the server starts and loads credentials.json
RunServer ==
    /\ state' = [state EXCEPT !.serving = state.file, !.running = TRUE]
    /\ UNCHANGED <<pc, ledgerVars>>

\* do_POST, lines 260-265, with path /login
HandleLogin ==
    /\ state.running
    /\ \E request \in Requests :
          state' = [state EXCEPT
                       !.request = request,
                       !.response = handle_login(request, state.serving, state.bcrypt)]
    /\ UNCHANGED <<pc, ledgerVars>>

IpLoginNext ==
    \/ AddUser
    \/ RunServer
    \/ HandleLogin

SpecIpLogin == IpLoginInit /\ [][IpLoginNext]_vars

\* The client address of a request as the claim gives it: the first entry of
\* an X-Forwarded-For header if the request has one, else the socket address.
ForwardedFor(request) ==
    LET named == { i \in 1..Len(request.headers) :
                      request.headers[i].name \in {"X-Forwarded-For", "x-forwarded-for"} }
    IN  IF named = {} THEN request.remote_addr
        ELSE request.headers[CHOOSE i \in named : \A j \in named : i <= j].entries[1]

\* The request names an existing user, gives the password the user was added
\* with, and comes from an address the user is allowed from.
Entitled(request, credentials) ==
    /\ request.body.kind = "object"
    /\ DOMAIN request.body.val = {"username", "password"}
    /\ request.body.val.username.t = "str"
    /\ request.body.val.username.v \in DOMAIN credentials
    /\ request.body.val.password = Str("right")
    /\ \E i \in 1..Len(credentials[request.body.val.username.v].allowed_ips) :
          credentials[request.body.val.username.v].allowed_ips[i] = ForwardedFor(request)

(* C31: POST /login answers 200 exactly when the user exists, the password
   verifies and the client address (the first X-Forwarded-For entry if the
   header is present, else the socket address) is allowed for the user; every
   other request with a JSON object as body (unknown user, wrong password,
   address not allowed, username or password missing) gets the one 403
   response. *)
C31_OneFailureResponse ==
    state.running =>
       /\ state.response.status = 200 <=> Entitled(state.request, state.serving)
       /\ (state.request.body.kind = "object" /\ ~ Entitled(state.request, state.serving))
             => state.response = AuthenticationFailed

(* ------------------ pewpi_login.py: TokenHashManager ------------------- *)

\* lines 404-455: the categories of the default configuration, the first
\* three, in the order of the dict; and a name that is no category
DefaultCategories ==
    << [name |-> "engineering", token_hashes |-> << >>],
       [name |-> "ceo", token_hashes |-> << >>],
       [name |-> "import", token_hashes |-> << >>] >>
NoCategory == "nowhere"

\* The token hashes given to add_token_to_category.
Hashes == { <<5>>, <<6>> }

\* name in self.categories, and the position of the name in the dict
Has(categories, name) == \E i \in 1..Len(categories) : categories[i].name = name
At(categories, name) == CHOOSE i \in 1..Len(categories) : categories[i].name = name

\* lines 395-398: the reverse lookup, built category after category
RECURSIVE reverse_lookup(_, _)
reverse_lookup(categories, token_to_category) ==
    IF categories = << >> THEN token_to_category
    ELSE LET cat_data == Head(categories)
             named == [h \in Range(cat_data.token_hashes) |-> cat_data.name]
         IN  reverse_lookup(Tail(categories), named @@ token_to_category)

\* lines 363-400: a TokenHashManager made from the configuration file
TokenHashManager(file) ==
    [categories |-> file, token_to_category |-> reverse_lookup(file, << >>)]

\* lines 507-517: None is << >>
get_category_for_token(manager, token_hash) ==
    IF token_hash \in DOMAIN manager.token_to_category
    THEN manager.token_to_category[token_hash] ELSE None

\* lines 527-542: the manager after the call, and whether it raised
\* CategoryNotFoundError
add_token_to_category(manager, token_hash, category_name) ==
    IF ~ Has(manager.categories, category_name)
    THEN [manager |-> manager, raised |-> TRUE]
    ELSE LET i == At(manager.categories, category_name)
         IN  IF token_hash \in Range(manager.categories[i].token_hashes)
             THEN [manager |-> manager, raised |-> FALSE]
             ELSE [manager |->
                      [categories |-> [manager.categories EXCEPT
                                          ![i].token_hashes = Append(@, token_hash)],
                       token_to_category |->
                          (token_hash :> category_name) @@ manager.token_to_category],
                   raised |-> FALSE]

\* The world of a TokenHashManager: the object and category_tokens.json.
\* The first manager finds no file and writes the default one (lines 380-383,
\* 464-468).
HashInit ==
    /\ pc = "idle"
    /\ state = [manager |-> TokenHashManager(DefaultCategories),
                file |-> DefaultCategories]
    /\ NoLedgerRun

AddTokenToCategory ==
    /\ \E token_hash \in Hashes,
          category_name \in {"engineering", "ceo", "import", NoCategory} :
          state' = [state EXCEPT
                       !.manager = add_token_to_category(@, token_hash, category_name).manager]
    /\ UNCHANGED <<pc, ledgerVars>>

\* lines 471-486
SaveConfig ==
    /\ state' = [state EXCEPT !.file = state.manager.categories]
    /\ UNCHANGED <<pc, ledgerVars>>

\* A new manager is made from the file.
LoadConfig ==
    /\ state' = [state EXCEPT !.manager = TokenHashManager(state.file)]
    /\ UNCHANGED <<pc, ledgerVars>>

HashNext ==
    \/ AddTokenToCategory
    \/ SaveConfig
    \/ LoadConfig

SpecHash == HashInit /\ [][HashNext]_vars

(* C32: when the file holds what the manager has just saved, a manager freshly
   loaded from it gives for every token hash the category the saving manager
   gives. *)
C32_ReloadGivesSameCategory ==
    state.file = state.manager.categories =>
       \A h \in Hashes :
          get_category_for_token(TokenHashManager(state.file), h)
             = get_category_for_token(state.manager, h)

\* The categories whose token_hashes list holds h.
Holding(manager, h) ==
    { i \in 1..Len(manager.categories) : h \in Range(manager.categories[i].token_hashes) }

(* C33: every token hash is in the token_hashes list of exactly one category,
   the one token_to_category names, once; and add_token_to_category with a
   name that is no category raises CategoryNotFoundError and changes neither
   the lists nor the reverse map. *)
C33_OneCategoryPerToken ==
    \A h \in Hashes :
       /\ add_token_to_category(state.manager, h, NoCategory)
             = [manager |-> state.manager, raised |-> TRUE]
       /\ \A i \in Holding(state.manager, h) :
             /\ Occurrences(h, state.manager.categories[i].token_hashes) = 1
             /\ state.manager.categories[i].name
                   = get_category_for_token(state.manager, h)
       /\ Cardinality(Holding(state.manager, h)) <= 1
       /\ h \in DOMAIN state.manager.token_to_category => Holding(state.manager, h) # {}

(* ------- cart082 main beside the router: the steps of a valuation pass -- *)

\* The valuator's position: not running, or in its loop with the buffer it
\* read (buf) and the hashes it has not come to yet (left).
NoPass == [at |-> "idle", buf |-> << >>, left |-> << >>]

PassInit ==
    /\ pc = "idle"
    /\ state = [tokens |-> << >>, pending |-> << >>, now |-> 0, routed |-> 0,
                pass |-> NoPass]
    /\ NoLedgerRun

\* cart082 main, lines 57-69: the buffer is read; with nothing pending the
\* valuator returns
PassRead ==
    /\ state.pass.at = "idle"
    /\ state.pending # << >>
    /\ state' = [state EXCEPT !.pass = [at |-> "loop", buf |-> state.pending,
                                        left |-> state.pending]]
    /\ UNCHANGED <<pc, ledgerVars>>

\* cart082 main, lines 71-76: one turn of the loop
PassValuate ==
    /\ state.pass.at = "loop"
    /\ state.pass.left # << >>
    /\ state' = [state EXCEPT
                    !.tokens = valuate_pending(@, <<Head(state.pass.left)>>),
                    !.pass.left = Tail(@)]
    /\ UNCHANGED <<pc, ledgerVars>>

\* cart082 main, lines 78-81: buf["pending"] = [] and the buffer is written
PassClear ==
    /\ state.pass.at = "loop"
    /\ state.pass.left = << >>
    /\ state' = [state EXCEPT !.pending = << >>, !.pass = NoPass]
    /\ UNCHANGED <<pc, ledgerVars>>

PassNext ==
    \/ CartTick
    \/ RouterMain
    \/ PassRead
    \/ PassValuate
    \/ PassClear

SpecPass == PassInit /\ [][PassNext]_vars

(* C34: with the router running beside a valuation pass, no id registered in
   the buffer leaves pending without having been valuated: every token file
   is listed in pending or carries the score and value of a valuation. *)
C34_PendingOrValuated ==
    \A h \in DOMAIN state.tokens :
       \/ h \in Range(state.pending)
       \/ "score" \in DOMAIN state.tokens[h]

\* next_index = threshold * batch_index + len(current_batch_hashes)
Balanced(st) ==
    st.next_index = Threshold * st.batch_index + Len(st.current_batch_hashes)

(* C35: in the generating stream, next_index = threshold * batch_index +
   len(current_batch_hashes) holds for the state in memory of a running
   script and for every cursor file that holds JSON. *)
C35_OrdinalsBalanced ==
    /\ pc # "start" => Balanced(state)
    /\ cursor.kind = "json" => Balanced(cursor.val)

\* Two batches were sealed, a hash is waiting, a write failed or the script
\* was killed on the way, and the cursor file holds the state in memory.
C35_Witness ==
    /\ pc # "start"
    /\ state.batch_index = 2
    /\ Len(state.current_batch_hashes) = 1
    /\ faults > 0
    /\ cursor = File(state)

\* What master_stream loads from its two files.
PersistedProcessed == Range(load_json(processed_file, << >>))
PersistedHashes == load_json(cursor, StreamDefault).master_hashes

(* C36: in master_stream, whatever was killed or failed to be written, every
   folder in the persisted processed file has its master hash in the persisted
   master_hashes list, and the list is as long as the processed file. *)
C36_ProcessedHasHash ==
    /\ \A f \in PersistedProcessed :
          zipcoins[f].kind = "json" =>
             ChainOf(f, zipcoins[f].val).routes_red \in Range(PersistedHashes)
    /\ Len(PersistedHashes) = Cardinality(PersistedProcessed)


(* ------- auth_server.py: requests that load, change and save users.json -- *)

\* Requests started in one run.
MaxRequests == 3

\* The threads of the server that handle requests at the same time.
Workers == {1, 2}

\* The handlers that record a token: update_user_tokens (auth_server.py),
\* build_token_api (auth_server.py) and add_user_token (pewpi_login.py).
TokenHandlers == {"update_user_tokens", "build_token_api", "add_user_token"}

\* update_user_tokens lines 396-405, build_token_api lines 458-464,
\* add_user_token lines 167-175: the change made to the loaded dictionary.
record_token(users_data, token_hash) ==
    [users_data EXCEPT !.tokens_created = Append(@, token_hash),
                       !.token_count = @ + 1]

\* github_oauth_callback, lines 267-273
create_session(users_data, session_token) ==
    [users_data EXCEPT !.sessions = @ \cup {session_token}]

\* logout, lines 324-325
delete_session(users_data, session_token) ==
    [users_data EXCEPT !.sessions = @ \ {session_token}]

\* A worker between requests.
Waiting == [at |-> "idle"]

\* users.json holds one user who is signed in with session 0; no request is
\* being handled.
RaceInit ==
    /\ pc = "idle"
    /\ state = [users_file |-> [token_count |-> 0, tokens_created |-> << >>,
                                sessions |-> {0}],
                workers |-> [w \in Workers |-> Waiting],
                requests |-> 0,
                answered |-> {}]
    /\ NoLedgerRun

\* A token-recording request passes require_auth (lines 121-131), calls
\* load_users and changes the dictionary it got.
TokenRequest(w) ==
    /\ state.workers[w] = Waiting
    /\ state.requests < MaxRequests
    /\ state.users_file.sessions # {}
    /\ \E handler \in TokenHandlers :
          state' = [state EXCEPT
                       !.requests = @ + 1,
                       !.workers[w] =
                           [at |-> "save", handler |-> handler,
                            arg |-> state.requests + 1,
                            users_data |-> record_token(state.users_file,
                                                        state.requests + 1)]]
    /\ UNCHANGED <<pc, ledgerVars>>

\* github_oauth_callback, lines 253-273: load_users, then a new session.
CallbackRequest(w) ==
    /\ state.workers[w] = Waiting
    /\ state.requests < MaxRequests
    /\ state' = [state EXCEPT
                    !.requests = @ + 1,
                    !.workers[w] =
                        [at |-> "save", handler |-> "github_oauth_callback",
                         arg |-> state.requests + 1,
                         users_data |-> create_session(state.users_file,
                                                       state.requests + 1)]]
    /\ UNCHANGED <<pc, ledgerVars>>

\* logout, lines 317-326: load_users, then the session is deleted if it is there.
LogoutRequest(w) ==
    /\ state.workers[w] = Waiting
    /\ state.requests < MaxRequests
    /\ \E session_token \in state.users_file.sessions :
          state' = [state EXCEPT
                       !.requests = @ + 1,
                       !.workers[w] =
                           [at |-> "save", handler |-> "logout",
                            arg |-> session_token,
                            users_data |-> delete_session(state.users_file,
                                                          session_token)]]
    /\ UNCHANGED <<pc, ledgerVars>>

\* save_users, lines 56-59: the whole dictionary replaces the file, and the
\* request is answered.
SaveUsers(w) ==
    /\ state.workers[w].at = "save"
    /\ state' = [state EXCEPT
                    !.users_file = state.workers[w].users_data,
                    !.workers[w] = Waiting,
                    !.answered = @ \cup {[handler |-> state.workers[w].handler,
                                          arg |-> state.workers[w].arg]}]
    /\ UNCHANGED <<pc, ledgerVars>>

RaceNext ==
    \E w \in Workers :
       \/ TokenRequest(w)
       \/ CallbackRequest(w)
       \/ LogoutRequest(w)
       \/ SaveUsers(w)

SpecRace == RaceInit /\ [][RaceNext]_vars

\* The answered requests of the given handlers.
Answered(handlers) == { r \in state.answered : r.handler \in handlers }

(* C37: whatever the interleaving of the requests, users.json holds every
   answered update: token_count is the number of answered token-recording
   requests, each of their hashes is in tokens_created, a session made by an
   answered sign-in and not logged out is there, and a logged-out session is
   not. *)
C37_NoUpdateLost ==
    /\ state.users_file.token_count = Cardinality(Answered(TokenHandlers))
    /\ \A r \in Answered(TokenHandlers) :
          r.arg \in Range(state.users_file.tokens_created)
    /\ \A r \in Answered({"github_oauth_callback"}) :
          r.arg \in state.users_file.sessions
             \/ \E o \in Answered({"logout"}) : o.arg = r.arg
    /\ \A r \in Answered({"logout"}) : r.arg \notin state.users_file.sessions


(* ------- auth_server.py: check_rate_limit and the OAuth state check ----- *)

\* limit_per_minute, 10 in the source (line 98), scaled down.
LimitPerMinute == 2

\* The size past which rate_limit_store is cleared, 1000 in the source
\* (line 111), scaled down.
StoreCap == 2

\* Enough identifiers to fill the store past StoreCap within one minute.
Identifiers == 1..(StoreCap + 1)

\* The minute buckets of one run.
Minutes == 0..MaxClock

\* Enough requests to use up one identifier's limit, fill the store and ask
\* again.
MaxChecks == LimitPerMinute + StoreCap + 2

\* The keys of rate_limit_store, line 102. A key that is not in the
\* dictionary is a key with count 0: line 108 never stores 0.
StoreKeys == Identifiers \X Minutes

EmptyStore == [key \in StoreKeys |-> 0]

\* check_rate_limit, lines 98-114
check_rate_limit(rate_limit_store, identifier, minute_key) ==
    LET key == <<identifier, minute_key>>
        seen == rate_limit_store[key]
        stored == [rate_limit_store EXCEPT ![key] = seen + 1]
    IN IF seen >= LimitPerMinute
       THEN [store |-> rate_limit_store, admitted |-> FALSE]
       ELSE [store |-> IF Cardinality({k \in StoreKeys : stored[k] > 0}) > StoreCap
                       THEN EmptyStore
                       ELSE stored,
             admitted |-> TRUE]

\* secrets.token_hex: the n-th token made is unlike the others.
token_hex(n) == <<n>>

\* The browser sessions (Flask's signed cookie), each with the keys the
\* handlers set; a key that was never set reads as None (session.get).
Browsers == {1, 2}

NewSession == [oauth_state |-> None, session_token |-> None]

\* The state parameters a callback request may carry: none, one of the
\* tokens made in the run, or a value that was never made.
StateParams == {None, <<0>>} \cup { token_hex(n) : n \in 1..MaxChecks }

\* github_oauth_callback, lines 176-177: TRUE when the request goes on to the
\* code exchange.
state_accepted(args_state, browser_session) ==
    ~ (args_state # browser_session.oauth_state)

\* The server starts with an empty store (line 39) and no session holds
\* anything; admitted counts, per key, the calls answered True; issued holds,
\* per browser session, the state tokens made for it.
OauthInit ==
    /\ pc = "idle"
    /\ state = [rate_limit_store |-> EmptyStore,
                now |-> 0,
                checks |-> 0,
                session |-> [b \in Browsers |-> NewSession],
                admitted |-> EmptyStore,
                issued |-> [b \in Browsers |-> {}]]
    /\ NoLedgerRun

\* github_oauth_initiate, lines 141-170, with GITHUB_CLIENT_ID set.
GithubOauthInitiate ==
    /\ state.checks < MaxChecks
    /\ \E identifier \in Identifiers, b \in Browsers :
          LET r == check_rate_limit(state.rate_limit_store, identifier, state.now)
              state_token == token_hex(state.checks + 1)
          IN state' = [state EXCEPT
                          !.rate_limit_store = r.store,
                          !.checks = @ + 1,
                          !.admitted[<<identifier, state.now>>] =
                              IF r.admitted THEN @ + 1 ELSE @,
                          !.session[b].oauth_state =
                              IF r.admitted THEN state_token ELSE @,
                          !.issued[b] =
                              IF r.admitted THEN @ \cup {state_token} ELSE @]
    /\ UNCHANGED <<pc, ledgerVars>>

\* github_oauth_callback, lines 173-281, for a request with a code that
\* GitHub exchanges for a user: past the state check the browser is signed in.
GithubOauthCallback ==
    /\ state.checks < MaxChecks
    /\ \E b \in Browsers, args_state \in StateParams :
          state' = [state EXCEPT
                       !.checks = @ + 1,
                       !.session[b].session_token =
                           IF state_accepted(args_state, state.session[b])
                           THEN token_hex(state.checks + 1)
                           ELSE @]
    /\ UNCHANGED <<pc, ledgerVars>>

\* The wall clock reaches the next minute (line 100).
OauthTick ==
    /\ state.now < MaxClock
    /\ state' = [state EXCEPT !.now = @ + 1]
    /\ UNCHANGED <<pc, ledgerVars>>

OauthNext ==
    \/ GithubOauthInitiate
    \/ GithubOauthCallback
    \/ OauthTick

SpecOauth == OauthInit /\ [][OauthNext]_vars

(* C38: for every identifier and every minute bucket, at most limit_per_minute
   calls of check_rate_limit have been admitted, whatever other identifiers
   called and however large the store grew. *)
C38_AtMostLimitPerBucket ==
    \A key \in StoreKeys : state.admitted[key] <= LimitPerMinute

(* C39: in every browser session, a callback request goes past the state
   check only with a state parameter that /auth/github made for that session;
   in a session for which none was made, every callback is turned away, and
   no such session is signed in. *)
C39_StateWasIssued ==
    \A b \in Browsers :
       /\ \A args_state \in StateParams :
             state_accepted(args_state, state.session[b])
                => args_state \in state.issued[b]
       /\ state.issued[b] = {} => state.session[b].session_token = None

(* ------- cart1000_infinity_research_engine.py main --------------------- *)

\* Sources processed in all runs together.
MaxSources == 3

\* line 25
MAX_SENTENCES == 14

\* line 26
TOKENS_PER_BATCH == 1000

\* token_est, lines 115-116, of a sentence of so many words:
\* max(1, int(words * 1.3)).
token_est(words) ==
    IF (13 * words) \div 10 < 1 THEN 1 ELSE (13 * words) \div 10

\* A page is the list of its sentences, a sentence the number of its words. A
\* page that could not be fetched has the one empty sentence split_sentences
\* makes of the empty text (lines 101-113). The last page has more than
\* MAX_SENTENCES sentences.
Pages ==
    { <<0>>, <<300>>, <<500>>, <<300, 500>>, <<500, 500>>,
      [i \in 1..(MAX_SENTENCES + 1) |-> 1] }

\* lines 180-186: approx_tokens of the capsule made from a page
approx_tokens(sents) ==
    SumSeq([i \in 1..Len(Take(sents, MAX_SENTENCES)) |-> token_est(sents[i])])

\* load_counter, lines 56-63, of a file that is not there
NewCounter == [total_tokens |-> 0, total_capsules |-> 0, batch_index |-> 0]

\* line 214, where counter already counts the page's tokens
next_cutoff(counter, toks) ==
    ((counter.total_tokens \div TOKENS_PER_BATCH) + 1) * TOKENS_PER_BATCH

\* flush_batch, lines 126-135: the zip of a batch; a capsule is kept as the
\* total_tokens before and after it.
flush_batch(sealed_zips, capsules, index) ==
    IF capsules = << >> THEN sealed_zips
    ELSE (index :> [from |-> capsules[1].from, to |-> capsules[Len(capsules)].to])
            @@ sealed_zips

\* No engine has run: no counter file, no zips.
EngineInit ==
    /\ pc = "idle"
    /\ state = [at |-> "idle",
                counter_file |-> NewCounter,
                counter |-> NewCounter,
                batch |-> << >>,
                zips |-> << >>]
    /\ NoLedgerRun

\* main, lines 166-171
EngineStart ==
    /\ state.at = "idle"
    /\ state.counter_file.total_capsules < MaxSources
    /\ state' = [state EXCEPT !.at = "loop",
                              !.counter = state.counter_file,
                              !.batch = << >>]
    /\ UNCHANGED <<pc, ledgerVars>>

\* main, lines 173-229: one source
ProcessSource ==
    /\ state.at = "loop"
    /\ state.counter.total_capsules < MaxSources
    /\ \E sents \in Pages :
          LET toks == approx_tokens(sents)
              counted == [state.counter EXCEPT !.total_capsules = @ + 1,
                                               !.total_tokens = @ + toks]
              capsule == [from |-> state.counter.total_tokens,
                          to |-> counted.total_tokens]
              appended == Append(state.batch, capsule)
              sealed == counted.total_tokens >= next_cutoff(counted, toks)
              counter == IF sealed
                         THEN [counted EXCEPT !.batch_index = @ + 1]
                         ELSE counted
          IN state' = [state EXCEPT
                          !.zips = IF sealed
                                   THEN flush_batch(@, appended, counted.batch_index)
                                   ELSE @,
                          !.batch = IF sealed THEN << >> ELSE appended,
                          !.counter = counter,
                          !.counter_file = counter]
    /\ UNCHANGED <<pc, ledgerVars>>

\* main, lines 231-237: the sources are used up
EngineFinish ==
    /\ state.at = "loop"
    /\ LET counter == IF state.batch # << >>
                      THEN [state.counter EXCEPT !.batch_index = @ + 1]
                      ELSE state.counter
       IN state' = [state EXCEPT
                       !.at = "idle",
                       !.zips = flush_batch(@, state.batch, state.counter.batch_index),
                       !.batch = << >>,
                       !.counter = counter,
                       !.counter_file = counter]
    /\ UNCHANGED <<pc, ledgerVars>>

EngineNext ==
    \/ EngineStart
    \/ ProcessSource
    \/ EngineFinish

SpecEngine == EngineInit /\ [][EngineNext]_vars

\* The multiples of TOKENS_PER_BATCH in (from, to].
Boundaries(from, to) == (to \div TOKENS_PER_BATCH) - (from \div TOKENS_PER_BATCH)

(* C40: after every source the batch in memory holds no capsule with which
   total_tokens reached or passed a multiple of TOKENS_PER_BATCH (the batch
   was sealed and batch_index raised at that point), and no zip spans more
   than one such multiple. *)
C40_FlushAtBoundary ==
    /\ state.batch # << >> =>
          Boundaries(state.batch[1].from, state.counter.total_tokens) = 0
    /\ \A index \in DOMAIN state.zips :
          Boundaries(state.zips[index].from, state.zips[index].to) <= 1
============================================================================
